---- MODULE Spec2Model ----
(***************************************************************************)
(* MEV Exorcist backend: the Alchemy WebSocket client (connection state    *)
(* machine, exponential backoff reconnection) and the server that drives   *)
(* it (start-up, re-subscription, graceful shutdown).                      *)
(*                                                                         *)
(* One step of the model is one JavaScript job: a public method call, a    *)
(* timer callback, a socket event handler, or the continuation of an       *)
(* await.  Jobs run to completion; what interleaves is their order.        *)
(***************************************************************************)
EXTENDS Integers, Sequences, FiniteSets, TLC

----------------------------------------------------------------------------
\* Bounds of the model.
MaxSockets == 2      \* WebSocket objects alive at the same time
MaxTimers == 2       \* slots of the timer table (the code never needs more than 1)
MaxAttempts == 7     \* cap on reconnectAttempts in the server process
MaxApiAttempts == 1  \* cap on reconnectAttempts under arbitrary callers
MaxSubs == 3         \* eth_subscribe requests sent on one socket
MaxRetryCount == 8   \* largest retry count given to calculateReconnectDelay()
MaxRefs == 3         \* inbound messages of the transaction pipeline
MaxWindowAttempts == 1  \* cap on reconnectAttempts while the pipeline runs beside the client
MaxConns == 2        \* subscriber connections made to the Broadcast Hub
MaxBroadcasts == 2   \* broadcast() calls made on the Broadcast Hub
MaxAddrLen == 2      \* characters of an address given to isTargetTransaction()
MaxWholeDigits == 22 \* digits of the whole ETH part of a transaction value
MaxDataBytes == 5    \* bytes of call data given to decode()
MaxRequests == 3     \* sounds requested from the audio hook
MaxTxs == 3          \* transactions received by the dashboard
MaxClicks == 2       \* user interactions with the dashboard
MaxTime == 6         \* seconds of dashboard time
MaxStreamLen == 4    \* transactions given to the transaction stream
MaxItems == 5        \* the stream's maxItems

\* Program constants.
DefaultMaxReconnectDelay == 30000
baseDelays == <<1000, 2000, 4000, 8000, 16000>>

\* Values of options.maxReconnectDelay given to the constructor; 0 stands
\* for an absent (or zero, hence falsy) option.
MaxDelayOptions == {0, 20000, 60000}

\* Values of options.maxReconnectDelay for calculateReconnectDelay() taken
\* alone: the option is a number the constructor does not validate.
ConfiguredDelays == {0, 500, 8000, 16000, 20000, 30000, 60000}

Sockets == 1..MaxSockets
TimerIds == 1..MaxTimers
Refs == 1..MaxRefs
ConnIds == 1..MaxConns

ConnectionStates == {"disconnected", "connecting", "connected", "reconnecting"}

VARIABLES
  urlValid,            \* whether new WebSocket(url) accepts the configured URL
  optMaxDelay,         \* options.maxReconnectDelay as given to the constructor
  maxReconnectDelay,   \* this.maxReconnectDelay
  connectionState,     \* this.connectionState
  reconnectAttempts,   \* this.reconnectAttempts
  reconnectTimer,      \* this.reconnectTimer: 0 (null) or a timer handle
  ws,                  \* this.ws: 0 (null) or a socket
  timers,              \* the runtime's timer table: handle -> delay, 0 = not armed
  sock,                \* the WebSocket objects created by connect()
  thrown,              \* who awaits a connect() whose constructor threw
  proc,                \* the server process: init, starting, running, stopping, exited; api
  closed,              \* close() was called and neither connect() nor reconnect() since
  lastOp,              \* the job that ran last
  emitted,             \* the events that job emitted, in order
  prevAttempts,        \* reconnectAttempts before that job
  failRun,             \* timers armed by reconnect() since the last successful open
  lastDelay,           \* the last result of calculateReconnectDelay() called alone; 0 = none
  pipe,                \* the inbound messages and their processTransaction() runs
  hub,                 \* the TransactionBroadcaster
  peer,                \* the subscribers' ends of the Socket.io connections
  resp,                \* the last HTTP request and the answer to it
  unit,                \* a function called alone: its arguments and its result
  ui                   \* the dashboard: the state and refs of its hooks and components

cfgVars == <<urlValid, optMaxDelay, maxReconnectDelay>>
clientVars == <<connectionState, reconnectAttempts, reconnectTimer, ws, timers, sock, thrown>>
vars == <<urlValid, optMaxDelay, maxReconnectDelay, connectionState,
          reconnectAttempts, reconnectTimer, ws, timers, sock, thrown, proc,
          closed, lastOp, emitted, prevAttempts, failRun, lastDelay, pipe,
          hub, peer, resp, unit, ui>>

----------------------------------------------------------------------------
\* A WebSocket object together with what connect() attached to it.
\*   rs       readyState; FREE marks an unused slot
\*   abort    the handshake was aborted by ws.close(): error and close follow
\*   errd     'error' was emitted: 'close' follows
\*   promise  the promise of the connect() call that created the socket
\*   waiter   who awaits that promise: start (server.start), timer (the
\*            reconnection timer callback), api (any other caller)
\*   cont     the awaiting continuation is queued
\*   ctimer   the 10 s connectionTimeout is armed
\*   subs     eth_subscribe requests sent on the socket
FreeSock ==
  [rs |-> "FREE", abort |-> FALSE, errd |-> FALSE, promise |-> "none",
   waiter |-> "none", cont |-> FALSE, ctimer |-> FALSE, subs |-> 0]

\* The client as a record, with the event log of the running job empty.
Raw ==
  [connectionState |-> connectionState, reconnectAttempts |-> reconnectAttempts,
   reconnectTimer |-> reconnectTimer, ws |-> ws, timers |-> timers, sock |-> sock,
   thrown |-> thrown, failRun |-> failRun, emitted |-> <<>>]

\* A socket that is closed, awaited by no queued continuation and no longer
\* referenced by this.ws is garbage: its slot is reused.
Collect(c) ==
  [c EXCEPT !.sock = [s \in Sockets |->
      IF c.sock[s].rs = "CLOSED" /\ ~c.sock[s].cont /\ c.ws # s
      THEN FreeSock ELSE c.sock[s]]]

Cur == Collect(Raw)

Ev(name, st, attempt, delay) ==
  [ev |-> name, st |-> st, attempt |-> attempt, delay |-> delay]

StateChange(st) == Ev("stateChange", st, 0, 0)

Emit(c, e) == [c EXCEPT !.emitted = Append(@, e)]

\* Faulty variant, for comparison: the state changes without a notification.
SetStateSilent(c, st) == [c EXCEPT !.connectionState = st]

SetState(c, st) == Emit([c EXCEPT !.connectionState = st], StateChange(st))

----------------------------------------------------------------------------
\* constructor: this.maxReconnectDelay = options.maxReconnectDelay || 30000
Constructor(opt) == IF opt = 0 THEN DefaultMaxReconnectDelay ELSE opt

\* Faulty variant, for comparison: the configured maximum is ignored.
calculateReconnectDelayFixedMax(c) ==
  IF c.reconnectAttempts < Len(baseDelays)
  THEN baseDelays[c.reconnectAttempts + 1]
  ELSE DefaultMaxReconnectDelay

calculateReconnectDelay(c) ==
  IF c.reconnectAttempts < Len(baseDelays)
  THEN baseDelays[c.reconnectAttempts + 1]
  ELSE maxReconnectDelay

\* ws library, WebSocket.close(): aborts a handshake in progress (error and
\* close are then emitted on the next tick), starts the closing handshake of
\* an open socket, and does nothing otherwise.
WsClose(c, s) ==
  IF c.sock[s].rs = "CONNECTING"
  THEN [c EXCEPT !.sock[s].rs = "CLOSING", !.sock[s].abort = TRUE]
  ELSE IF c.sock[s].rs = "OPEN"
  THEN [c EXCEPT !.sock[s].rs = "CLOSING"]
  ELSE c

\* resolve() / reject() of the promise created by the connect() call that
\* made socket s; settling a settled promise does nothing.
Settle(c, s, how) ==
  IF c.sock[s].promise = "pending"
  THEN [c EXCEPT !.sock[s].promise = how,
                 !.sock[s].cont = (c.sock[s].waiter \in {"start", "timer"})]
  ELSE c

\* Faulty variant, for comparison: subscribe() checks the socket but not the state.
SubscribeThrowsSocketOnly(c) ==
  \/ c.ws = 0
  \/ c.sock[c.ws].rs = "CONNECTING"

\* subscribe(): throws unless connected with a socket; ws.send() itself
\* throws on a socket that is still CONNECTING and drops the frame on one
\* that is closing or closed.
SubscribeThrows(c) ==
  \/ c.connectionState # "connected"
  \/ c.ws = 0
  \/ c.sock[c.ws].rs = "CONNECTING"

Subscribe(c) ==
  IF SubscribeThrows(c) THEN c
  ELSE IF c.sock[c.ws].rs = "OPEN"
  THEN [c EXCEPT !.sock[c.ws].subs = @ + 1]
  ELSE c

\* Faulty variant, for comparison: the 'connected' listener does not subscribe.
OnConnectedNoResubscribe(c) == c

\* The server's 'connected' listener: subscribe() inside try/catch.  Other
\* callers attach no such listener.
OnConnected(c) == IF proc = "api" THEN c ELSE Subscribe(c)

FreeSockets(c) == {s \in Sockets : c.sock[s].rs = "FREE"}

NewSocket(c) == CHOOSE s \in FreeSockets(c) : \A t \in FreeSockets(c) : s <= t

\* connect() can run: it returns early, or the constructor throws, or there
\* is room for one more socket.
CanConnect(c) ==
  \/ c.connectionState \in {"connected", "connecting"}
  \/ ~urlValid
  \/ FreeSockets(c) # {}

\* Faulty variant, for comparison: the early return of connect() covers 'connected' only.
ConnectGuardConnectedOnly(c, w) ==
  IF c.connectionState = "connected"
  THEN c
  ELSE LET c1 == SetState(c, "connecting") IN
       IF ~urlValid
       THEN [SetState(c1, "disconnected") EXCEPT
               !.thrown = IF w \in {"start", "timer"} THEN w ELSE "none"]
       ELSE IF FreeSockets(c1) = {}
       THEN c
       ELSE LET s == NewSocket(c1) IN
            [c1 EXCEPT !.ws = s,
                       !.sock[s] = [FreeSock EXCEPT !.rs = "CONNECTING",
                                                    !.promise = "pending",
                                                    !.waiter = w,
                                                    !.ctimer = TRUE]]

\* connect(), called by w.
Connect(c, w) ==
  IF c.connectionState \in {"connected", "connecting"}
  THEN c
  ELSE LET c1 == SetState(c, "connecting") IN
       IF ~urlValid
       THEN [SetState(c1, "disconnected") EXCEPT
               !.thrown = IF w \in {"start", "timer"} THEN w ELSE "none"]
       ELSE LET s == NewSocket(c1) IN
            [c1 EXCEPT !.ws = s,
                       !.sock[s] = [FreeSock EXCEPT !.rs = "CONNECTING",
                                                    !.promise = "pending",
                                                    !.waiter = w,
                                                    !.ctimer = TRUE]]

FreeTimers(c) == {t \in TimerIds : c.timers[t] = 0}

\* setTimeout(): arms the lowest free slot of the timer table.
NewTimer(c) == CHOOSE t \in FreeTimers(c) : \A u \in FreeTimers(c) : t <= u

\* Faulty variant, for comparison: reconnect() without the "already scheduled" check.
ReconnectUnguarded(c) ==
  IF FreeTimers(c) = {}
  THEN c
  ELSE LET delay == calculateReconnectDelay(c)
           t == NewTimer(c)
           c1 == SetState(c, "reconnecting")
           c2 == Emit(c1, Ev("reconnecting", "-", c.reconnectAttempts + 1, delay))
       IN [c2 EXCEPT !.timers[t] = delay,
                     !.reconnectTimer = t,
                     !.failRun = IF proc = "api" THEN 0 ELSE @ + 1]

\* reconnect().  (A full timer table cannot occur: the guard keeps at most
\* one timer armed.)
Reconnect(c) ==
  IF c.reconnectTimer # 0 \/ FreeTimers(c) = {}
  THEN c
  ELSE LET delay == calculateReconnectDelay(c)
           t == NewTimer(c)
           c1 == SetState(c, "reconnecting")
           c2 == Emit(c1, Ev("reconnecting", "-", c.reconnectAttempts + 1, delay))
       IN [c2 EXCEPT !.timers[t] = delay,
                     !.reconnectTimer = t,
                     !.failRun = IF proc = "api" THEN 0 ELSE @ + 1]

\* close()
Close(c) ==
  LET c1 == IF c.reconnectTimer # 0
            THEN [c EXCEPT !.timers[c.reconnectTimer] = 0, !.reconnectTimer = 0]
            ELSE c
      c2 == IF c1.ws # 0 THEN [WsClose(c1, c1.ws) EXCEPT !.ws = 0] ELSE c1
  IN SetState(c2, "disconnected")

----------------------------------------------------------------------------
\* The handlers connect() attaches to socket s.

\* Faulty variant, for comparison: the open handler forgets to reset the retry counter.
OnOpenNoReset(c, s) ==
  LET c1 == [c EXCEPT !.sock[s].rs = "OPEN", !.sock[s].ctimer = FALSE]
      c2 == SetState([c1 EXCEPT !.failRun = 0], "connected")
      c3 == OnConnected(Emit(c2, Ev("connected", "-", 0, 0)))
  IN Settle(c3, s, "resolved")

\* Faulty variant, for comparison: the open handler leaves the connection state as it was.
OnOpenKeepState(c, s) ==
  LET c1 == [c EXCEPT !.sock[s].rs = "OPEN", !.sock[s].ctimer = FALSE]
      c2 == [c1 EXCEPT !.reconnectAttempts = 0, !.failRun = 0]
      c3 == OnConnected(Emit(c2, Ev("connected", "-", 0, 0)))
  IN Settle(c3, s, "resolved")

\* ws.on('open')
OnOpen(c, s) ==
  LET c1 == [c EXCEPT !.sock[s].rs = "OPEN", !.sock[s].ctimer = FALSE]
      c2 == SetState([c1 EXCEPT !.reconnectAttempts = 0, !.failRun = 0], "connected")
      c3 == OnConnected(Emit(c2, Ev("connected", "-", 0, 0)))
  IN Settle(c3, s, "resolved")

\* Faulty variant, for comparison: the error handler never rejects.
OnErrorNoReject(c, s) ==
  LET c1 == [c EXCEPT !.sock[s].rs = "CLOSING", !.sock[s].errd = TRUE,
                      !.sock[s].ctimer = FALSE]
  IN Emit(c1, Ev("error", "-", 0, 0))

\* ws.on('error')
OnError(c, s) ==
  LET c1 == [c EXCEPT !.sock[s].rs = "CLOSING", !.sock[s].errd = TRUE,
                      !.sock[s].ctimer = FALSE]
      c2 == Emit(c1, Ev("error", "-", 0, 0))
  IN IF c.connectionState = "connecting" THEN Settle(c2, s, "rejected") ELSE c2

\* Faulty variant, for comparison: the close handler reconnects whatever the state was.
OnCloseAlwaysReconnect(c, s) ==
  LET c1 == [c EXCEPT !.sock[s].rs = "CLOSED", !.sock[s].ctimer = FALSE]
      c2 == Emit(SetState(c1, "disconnected"), Ev("disconnected", "-", 0, 0))
  IN Reconnect(c2)

\* ws.on('close')
OnClose(c, s) ==
  LET wasConnected == c.connectionState = "connected"
      c1 == [c EXCEPT !.sock[s].rs = "CLOSED", !.sock[s].ctimer = FALSE]
      c2 == Emit(SetState(c1, "disconnected"), Ev("disconnected", "-", 0, 0))
  IN IF wasConnected THEN Reconnect(c2) ELSE c2

\* the connectionTimeout callback of the connect() call that made socket s
OnTimeout(c, s) ==
  LET c1 == [c EXCEPT !.sock[s].ctimer = FALSE] IN
  IF c1.ws # 0 /\ c1.sock[c1.ws].rs # "OPEN"
  THEN Settle(WsClose(c1, c1.ws), s, "rejected")
  ELSE c1

\* Faulty variant, for comparison: the timer callback does not count the attempt.
OnReconnectTimerNoIncrement(c, t) ==
  Connect([c EXCEPT !.timers[t] = 0, !.reconnectTimer = 0], "timer")

\* the reconnection timer callback, up to its await
OnReconnectTimer(c, t) ==
  LET c1 == [c EXCEPT !.timers[t] = 0, !.reconnectTimer = 0,
                      !.reconnectAttempts = @ + 1]
  IN Connect(c1, "timer")

\* Faulty variant, for comparison: the catch block gives up after the third failed attempt.
AfterReconnectAwaitGiveUp(c, how) ==
  IF how = "rejected" /\ c.reconnectAttempts < 3
  THEN Reconnect(Emit(c, Ev("error", "-", 0, 0)))
  ELSE c

\* the reconnection timer callback after its await: nothing when connect()
\* resolved, the catch block when it rejected
AfterReconnectAwait(c, how) ==
  IF how = "rejected" THEN Reconnect(Emit(c, Ev("error", "-", 0, 0))) ELSE c

----------------------------------------------------------------------------
\* Scheduling.  A queued await continuation (microtask) runs before any
\* timer, network event or further call; the error/close pair of an aborted
\* handshake and the close that follows an error are emitted on the next
\* tick, before any timer or network event.
MicrotaskPending == thrown # "none" \/ \E s \in Sockets : sock[s].cont

TickPending ==
  \E s \in Sockets : sock[s].rs = "CLOSING" /\ (sock[s].abort \/ sock[s].errd)

Quiet == ~MicrotaskPending /\ ~TickPending

Alive == proc # "exited"

AttemptCap == IF proc = "api" THEN MaxApiAttempts ELSE MaxAttempts

Commit(c, op) ==
  /\ connectionState' = c.connectionState
  /\ reconnectAttempts' = c.reconnectAttempts
  /\ reconnectTimer' = c.reconnectTimer
  /\ ws' = c.ws
  /\ timers' = c.timers
  /\ sock' = c.sock
  /\ thrown' = c.thrown
  /\ failRun' = c.failRun
  /\ emitted' = c.emitted
  /\ lastOp' = op
  /\ prevAttempts' = reconnectAttempts
  /\ UNCHANGED <<cfgVars, lastDelay, pipe, resp, unit, ui>>

----------------------------------------------------------------------------
\* Socket events and timers.

\* The upstream accepts the handshake of socket s.
SockOpen(s) ==
  /\ Alive /\ Quiet
  /\ sock[s].rs = "CONNECTING"
  /\ Commit(OnOpen(Cur, s), "open")
  /\ UNCHANGED <<proc, closed, hub, peer>>

\* Socket s emits 'error': a failed handshake or a failure of the open
\* connection (network), or the abort of its handshake (next tick).
SockError(s) ==
  /\ Alive
  /\ \/ /\ Quiet
        /\ \/ sock[s].rs = "OPEN"
           \/ sock[s].rs = "CONNECTING" /\ reconnectAttempts < AttemptCap
     \/ sock[s].rs = "CLOSING" /\ sock[s].abort /\ ~sock[s].errd
  /\ Commit(OnError(Cur, s), "error")
  /\ UNCHANGED <<proc, closed, hub, peer>>

\* Socket s emits 'close': after its 'error' (next tick), or when the peer
\* closes the connection or answers the closing handshake (network).
SockClose(s) ==
  /\ Alive
  /\ \/ sock[s].rs = "CLOSING" /\ sock[s].errd
     \/ /\ Quiet
        /\ \/ sock[s].rs = "OPEN"
           \/ sock[s].rs = "CLOSING" /\ ~sock[s].abort /\ ~sock[s].errd
  /\ Commit(OnClose(Cur, s), "sockClose")
  /\ UNCHANGED <<proc, closed, hub, peer>>

\* The 10 s connectionTimeout of socket s fires.
ConnTimeout(s) ==
  /\ Alive /\ Quiet
  /\ sock[s].ctimer
  /\ reconnectAttempts < AttemptCap
  /\ Commit(OnTimeout(Cur, s), "timeout")
  /\ UNCHANGED <<proc, closed, hub, peer>>

\* Reconnection timer t fires.
TimerFire(t) ==
  /\ Alive /\ Quiet
  /\ timers[t] # 0
  /\ reconnectAttempts < AttemptCap
  /\ CanConnect(Cur)
  /\ Commit(OnReconnectTimer(Cur, t), "timerFire")
  /\ UNCHANGED <<proc, closed, hub, peer>>

\* The timer callback resumes after await this.connect().
TimerAwait ==
  /\ Alive
  /\ \/ /\ thrown = "timer"
        /\ Commit(AfterReconnectAwait([Cur EXCEPT !.thrown = "none"], "rejected"),
                  "timerAwait")
     \/ \E s \in Sockets :
          /\ sock[s].cont /\ sock[s].waiter = "timer"
          /\ Commit(AfterReconnectAwait([Cur EXCEPT !.sock[s].cont = FALSE],
                                        sock[s].promise), "timerAwait")
  /\ UNCHANGED <<proc, closed, hub, peer>>

----------------------------------------------------------------------------
\* The Broadcast Hub (TransactionBroadcaster): an HTTP server that answers
\* the health probe, a Socket.io server on top of it, and the subscribers
\* connected to it.

\* Classified transactions handed to broadcast(); timestamps are small
\* numbers standing for Date.now().
Events ==
  {[hash |-> "0x456", from |-> "0xdef", ethValue |-> "1.2500", riskLevel |-> "HIGH",
    timestamp |-> 1, functionName |-> "exactInput"],
   [hash |-> "0x789", from |-> "0xghi", ethValue |-> "0.0500", riskLevel |-> "LOW",
    timestamp |-> 2, functionName |-> "exactOutputSingle"]}

\* Socket.io sends an event as the JSON text of [name, argument]: an object
\* becomes its key/value pairs in order, a number its decimal text.
NumberToJson(n) == <<"0", "1", "2", "3", "4", "5", "6", "7", "8", "9">>[n + 1]

JsonToNumber(t) == CHOOSE n \in 0..9 : NumberToJson(n) = t

Encode(name, e) ==
  [name |-> name,
   data |-> <<<<"hash", e.hash>>, <<"from", e.from>>, <<"ethValue", e.ethValue>>,
              <<"riskLevel", e.riskLevel>>, <<"timestamp", NumberToJson(e.timestamp)>>,
              <<"functionName", e.functionName>>>>]

Field(d, k) == d[CHOOSE i \in DOMAIN d : d[i][1] = k][2]

\* What the subscriber's 'transaction' listener is handed.
Decode(pkt) ==
  [hash |-> Field(pkt.data, "hash"), from |-> Field(pkt.data, "from"),
   ethValue |-> Field(pkt.data, "ethValue"), riskLevel |-> Field(pkt.data, "riskLevel"),
   timestamp |-> JsonToNumber(Field(pkt.data, "timestamp")),
   functionName |-> Field(pkt.data, "functionName")]

\* A subscriber's end of connection id.
\*   st     unused; attached; left (the subscriber closed, the hub has not
\*          noticed yet); kicked (the hub closed, the subscriber has not
\*          noticed yet); gone
\*   wire   packets sent to the subscriber and not yet received
\*   inbox  what its 'transaction' listener received, in order
NoPeer == [st |-> "unused", wire |-> <<>>, inbox |-> <<>>]

GonePeer == [st |-> "gone", wire |-> <<>>, inbox |-> <<>>]

\* The hub.
\*   listening         the HTTP server accepts requests
\*   closed            close() was called
\*   sockets           the sockets of the Socket.io server
\*   connectedClients  this.connectedClients
\*   calls, log        the broadcast() calls made on the hub taken alone: the
\*                     event and the sockets of the server at the call
\*   threw             the last broadcast() call threw
NewHub ==
  [listening |-> FALSE, closed |-> FALSE, sockets |-> {}, connectedClients |-> {},
   calls |-> 0, log |-> <<>>, threw |-> FALSE]

\* No request made yet; a request that found no server listening.
NoResp == [code |-> 0, status |-> "none", connections |-> 0]

Refused == [code |-> 0, status |-> "refused", connections |-> 0]

NoRequest == [method |-> "none", url |-> "none", ans |-> NoResp]

\* Faulty variant, for comparison: the probe reports ok only while a subscriber is attached.
healthHandlerNeedsSubscribers(h, method, url) ==
  IF url = "/health" /\ method = "GET"
  THEN IF h.connectedClients = {}
       THEN [code |-> 503, status |-> "idle", connections |-> 0]
       ELSE [code |-> 200, status |-> "ok", connections |-> Cardinality(h.connectedClients)]
  ELSE [code |-> 404, status |-> "none", connections |-> 0]

\* The request listener given to createServer.
healthHandler(h, method, url) ==
  IF url = "/health" /\ method = "GET"
  THEN [code |-> 200, status |-> "ok", connections |-> Cardinality(h.connectedClients)]
  ELSE [code |-> 404, status |-> "none", connections |-> 0]

\* io.on('connection')
OnConnection(h, id) == [h EXCEPT !.connectedClients = @ \cup {id}]

\* Faulty variant, for comparison: the disconnect handler forgets the entry.
OnDisconnectKeepsEntry(h, id) == h

\* socket.on('disconnect')
OnDisconnect(h, id) == [h EXCEPT !.connectedClients = @ \ {id}]

\* Socket.io adds the socket of a new connection and emits 'connection'.
Attach(h, id) == OnConnection([h EXCEPT !.sockets = @ \cup {id}], id)

\* Socket.io removes a socket and emits its 'disconnect'.
Detach(h, id) == OnDisconnect([h EXCEPT !.sockets = @ \ {id}], id)

RECURSIVE DetachAll(_)
DetachAll(h) ==
  IF h.sockets = {} THEN h
  ELSE DetachAll(Detach(h, CHOOSE id \in h.sockets : TRUE))

\* start(): httpServer.listen
HubStart(h) == [h EXCEPT !.listening = TRUE]

\* close(): io.close disconnects every socket and closes the HTTP server.
HubClose(h) == [DetachAll(h) EXCEPT !.listening = FALSE, !.closed = TRUE]

\* The subscribers' side of io.close(): a connection is closed by the hub.
Kick(p, sockets) ==
  [id \in ConnIds |->
     IF id \notin sockets THEN p[id]
     ELSE IF p[id].st = "attached" THEN [p[id] EXCEPT !.st = "kicked"]
     ELSE GonePeer]

\* Faulty variant, for comparison: the first socket of the server is left out.
ioEmitToOthers(p, sockets, name, e) ==
  [id \in ConnIds |->
     IF id \in sockets /\ p[id].st = "attached" /\ (\E j \in sockets : j < id)
     THEN [p[id] EXCEPT !.wire = Append(@, Encode(name, e))]
     ELSE p[id]]

\* Faulty variant, for comparison: the fan-out stops at a connection the subscriber has left.
ioEmitStopAtDead(p, sockets, name, e) ==
  [id \in ConnIds |->
     IF /\ id \in sockets /\ p[id].st = "attached"
        /\ \A j \in sockets : j < id => p[j].st = "attached"
     THEN [p[id] EXCEPT !.wire = Append(@, Encode(name, e))]
     ELSE p[id]]

\* io.emit(name, e): one packet written to every socket of the server; what
\* is written to a connection the subscriber has left is lost.
ioEmit(p, sockets, name, e) ==
  [id \in ConnIds |->
     IF id \in sockets /\ p[id].st = "attached"
     THEN [p[id] EXCEPT !.wire = Append(@, Encode(name, e))]
     ELSE p[id]]

\* broadcast(transaction), the hub's side: nothing in it throws.
HubBroadcast(h, e) ==
  [h EXCEPT !.calls = @ + 1, !.log = Append(@, [event |-> e, to |-> h.sockets]),
            !.threw = FALSE]

\* getConnectedClients()
getConnectedClients(h) == Cardinality(h.connectedClients)

serverVars ==
  <<cfgVars, clientVars, proc, closed, emitted, prevAttempts, failRun, lastDelay, pipe,
    unit, ui>>

\* A subscriber connects: connections are numbered in the order they are made.
SubscriberConnect ==
  /\ Alive /\ hub.listening
  /\ \E id \in ConnIds :
       /\ peer[id].st = "unused"
       /\ \A j \in ConnIds : j < id => peer[j].st # "unused"
       /\ hub' = Attach(hub, id)
       /\ peer' = [peer EXCEPT ![id].st = "attached"]
  /\ lastOp' = "subscriberConnect"
  /\ UNCHANGED <<serverVars, resp>>

\* The subscriber of connection id closes its end, or notices that the hub
\* closed the connection: what was on the wire is never received.
SubscriberClose(id) ==
  /\ Alive
  /\ peer[id].st \in {"attached", "kicked"}
  /\ peer' = [peer EXCEPT ![id] =
                IF peer[id].st = "attached"
                THEN [@ EXCEPT !.st = "left", !.wire = <<>>]
                ELSE GonePeer]
  /\ lastOp' = "subscriberClose"
  /\ UNCHANGED <<serverVars, hub, resp>>

\* The hub notices that the subscriber of connection id has left.
HubDisconnect(id) ==
  /\ Alive
  /\ peer[id].st = "left" /\ id \in hub.sockets
  /\ hub' = Detach(hub, id)
  /\ peer' = [peer EXCEPT ![id] = GonePeer]
  /\ lastOp' = "hubDisconnect"
  /\ UNCHANGED <<serverVars, resp>>

\* The subscriber of connection id receives the next packet.
Deliver(id) ==
  /\ Alive
  /\ peer[id].st \in {"attached", "kicked"}
  /\ peer[id].wire # <<>>
  /\ peer' = [peer EXCEPT ![id].wire = Tail(@),
                          ![id].inbox = Append(@, Decode(Head(peer[id].wire)))]
  /\ lastOp' = "deliver"
  /\ UNCHANGED <<serverVars, hub, resp>>

\* broadcaster.broadcast(e)
Broadcast(e) ==
  /\ Alive
  /\ hub.listening \/ hub.closed
  /\ hub.calls < MaxBroadcasts
  /\ hub' = HubBroadcast(hub, e)
  /\ peer' = ioEmit(peer, hub.sockets, "transaction", e)
  /\ lastOp' = "broadcast"
  /\ UNCHANGED <<serverVars, resp>>

\* Faulty variant, for comparison: only the HTTP server is closed, the sockets stay.
CloseHubHttpOnly ==
  /\ Alive
  /\ hub.listening
  /\ hub' = [hub EXCEPT !.listening = FALSE, !.closed = TRUE]
  /\ lastOp' = "closeHub"
  /\ UNCHANGED <<serverVars, peer, resp>>

\* broadcaster.close()
CloseHub ==
  /\ Alive
  /\ hub.listening
  /\ hub' = HubClose(hub)
  /\ peer' = Kick(peer, hub.sockets)
  /\ lastOp' = "closeHub"
  /\ UNCHANGED <<serverVars, resp>>

\* An HTTP request: the listener answers it if the server is listening.  No
\* request is served before main() has run.
Probe(method, url) ==
  /\ Alive /\ Quiet
  /\ proc # "init"
  /\ resp' = [method |-> method, url |-> url,
              ans |-> IF hub.listening THEN healthHandler(hub, method, url) ELSE Refused]
  /\ lastOp' = "probe"
  /\ UNCHANGED <<serverVars, hub, peer>>

----------------------------------------------------------------------------
\* The server (MEVExorcistServer and main).

\* start() up to await this.wsClient.connect(): the broadcaster is started,
\* then connect() is called.
Start ==
  /\ proc = "init"
  /\ Commit(Connect(Cur, "start"), "connect")
  /\ proc' = "starting"
  /\ closed' = FALSE
  /\ hub' = HubStart(hub)
  /\ UNCHANGED peer

\* start() after the await: subscribe and install the shutdown handlers, or
\* rethrow to main(), which exits the process.
StartAwait ==
  /\ proc = "starting"
  /\ \/ /\ thrown = "start"
        /\ Commit([Cur EXCEPT !.thrown = "none"], "startAwait")
        /\ proc' = "exited"
        /\ UNCHANGED <<closed, hub, peer>>
     \/ \E s \in Sockets :
          /\ sock[s].cont /\ sock[s].waiter = "start"
          /\ LET c == [Cur EXCEPT !.sock[s].cont = FALSE] IN
             IF sock[s].promise = "rejected" \/ SubscribeThrows(c)
             THEN Commit(c, "startAwait") /\ proc' = "exited"
             ELSE Commit(Subscribe(c), "startAwait") /\ proc' = "running"
          /\ UNCHANGED <<closed, hub, peer>>

\* SIGTERM / SIGINT: shutdown() closes the client, calls the broadcaster's
\* close() and awaits it.
Shutdown ==
  /\ proc = "running" /\ Quiet
  /\ Commit(Close(Cur), "close")
  /\ proc' = "stopping"
  /\ closed' = TRUE
  /\ hub' = HubClose(hub)
  /\ peer' = Kick(peer, hub.sockets)

\* shutdown() after its await: process.exit().
Exit ==
  /\ proc = "stopping" /\ ~MicrotaskPending
  /\ Commit(Cur, "exit")
  /\ proc' = "exited"
  /\ UNCHANGED <<closed, hub, peer>>

----------------------------------------------------------------------------
\* The transaction pipeline: the server's 'message' listener,
\* processTransaction() and the stages it calls.

\* What one run of processTransaction() meets: the provider's answer to
\* getTransaction (a transaction, none, or an error) and, of a transaction,
\* whether it is addressed to the router, whether its input decodes against
\* the ABI, and whether the decoded function is a swap.
TxInputs ==
  {[lookup |-> "error", target |-> FALSE, decodes |-> FALSE, swap |-> FALSE],
   [lookup |-> "none", target |-> FALSE, decodes |-> FALSE, swap |-> FALSE]}
  \cup {[lookup |-> "tx", target |-> tg, decodes |-> d[1], swap |-> d[2]] :
          tg \in BOOLEAN, d \in {<<FALSE, FALSE>>, <<TRUE, FALSE>>, <<TRUE, TRUE>>}}

NoInput == [lookup |-> "pending", target |-> FALSE, decodes |-> FALSE, swap |-> FALSE]

\* An inbound message and the run of processTransaction() it starts.
\*   pc       none (not received), ignored (not a notification carrying a
\*            hash), fetching (awaiting the lookup), done
\*   inp      what the run met
\*   calls    calls of provider.getTransaction made for it
\*   fetched  what processTransactionHash() returned: tx, null, throw
\*   stages   the stages entered, in order
\*   sent     broadcasts made for it
\*   caught   the catch block of processTransaction() ran
NoRef ==
  [pc |-> "none", inp |-> NoInput, calls |-> 0, fetched |-> "none",
   stages |-> <<>>, sent |-> 0, caught |-> FALSE]

\* Faulty variant, for comparison: a provider error is thrown on to the caller.
processTransactionHashRethrow(lookup) ==
  IF lookup = "tx" THEN "tx" ELSE IF lookup = "none" THEN "null" ELSE "throw"

\* TransactionProcessor.processTransactionHash after its await: the
\* transaction, or null both when the provider returned none and when the
\* call failed (catch block).
processTransactionHash(lookup) == IF lookup = "tx" THEN "tx" ELSE "null"

isTargetTransaction(inp) == inp.target

\* ABIDecoder.decode: the decoded transaction, or null on any failure.
decode(inp) == IF inp.decodes THEN "decoded" ELSE "null"

isSwapFunction(inp) == inp.swap

classify(x) == [x EXCEPT !.stages = Append(@, "classify")]

\* Faulty variant, for comparison: the event is emitted twice.
broadcastTwice(x) == [x EXCEPT !.stages = Append(@, "broadcast"), !.sent = @ + 2]

\* TransactionBroadcaster.broadcast: one io.emit('transaction', ...)
broadcast(x) == [x EXCEPT !.stages = Append(@, "broadcast"), !.sent = @ + 1]

\* The 'message' listener for message r: a subscription notification that
\* carries a hash starts processTransaction(), which runs up to the await
\* of the lookup; any other message is ignored.
OnMessage(p, r, kind) ==
  IF kind = "notification"
  THEN [p EXCEPT ![r].pc = "fetching", ![r].calls = @ + 1,
                 ![r].stages = Append(@, "fetch")]
  ELSE [p EXCEPT ![r].pc = "ignored"]

\* Faulty variant, for comparison: the result of decoding is not checked.
processTransactionNoDecodeCheck(p, r, inp) ==
  LET x0 == [p[r] EXCEPT !.pc = "done", !.inp = inp,
                         !.fetched = processTransactionHash(inp.lookup)]
      x1 == [x0 EXCEPT !.stages = Append(@, "filter")]
      x2 == [x1 EXCEPT !.stages = Append(@, "decode")]
  IN [p EXCEPT ![r] =
        IF x0.fetched = "throw" THEN [x0 EXCEPT !.caught = TRUE]
        ELSE IF x0.fetched = "null" THEN x0
        ELSE IF ~isTargetTransaction(inp) THEN x1
        ELSE broadcast(classify(x2))]

\* Faulty variant, for comparison: once a lookup has failed, later references are dropped.
processTransactionHaltAfterFailure(p, r, inp) ==
  LET x0 == [p[r] EXCEPT !.pc = "done", !.inp = inp,
                         !.fetched = processTransactionHash(inp.lookup)]
      x1 == [x0 EXCEPT !.stages = Append(@, "filter")]
      x2 == [x1 EXCEPT !.stages = Append(@, "decode")]
  IN [p EXCEPT ![r] =
        IF \E q \in Refs : q # r /\ p[q].fetched = "null" THEN x0
        ELSE IF x0.fetched = "throw" THEN [x0 EXCEPT !.caught = TRUE]
        ELSE IF x0.fetched = "null" THEN x0
        ELSE IF ~isTargetTransaction(inp) THEN x1
        ELSE IF decode(inp) = "null" THEN x2
        ELSE IF ~isSwapFunction(inp) THEN x2
        ELSE broadcast(classify(x2))]

\* processTransaction() for message r after the await of the lookup, which
\* met in: filter, decode, swap check, classify, broadcast, each return
\* ending the run; an exception of a stage ends in the catch block.
processTransaction(p, r, inp) ==
  LET x0 == [p[r] EXCEPT !.pc = "done", !.inp = inp,
                         !.fetched = processTransactionHash(inp.lookup)]
      x1 == [x0 EXCEPT !.stages = Append(@, "filter")]
      x2 == [x1 EXCEPT !.stages = Append(@, "decode")]
  IN [p EXCEPT ![r] =
        IF x0.fetched = "throw" THEN [x0 EXCEPT !.caught = TRUE]
        ELSE IF x0.fetched = "null" THEN x0
        ELSE IF ~isTargetTransaction(inp) THEN x1
        ELSE IF decode(inp) = "null" THEN x2
        ELSE IF ~isSwapFunction(inp) THEN x2
        ELSE broadcast(classify(x2))]

\* Faulty variant, for comparison: a run resumes only after every earlier run has ended.
AwaitingFetchInOrder(r) ==
  /\ pipe[r].pc = "fetching"
  /\ \A q \in Refs : q < r => pipe[q].pc \in {"ignored", "done"}

\* The run for message r awaits its lookup; the listener's promise is
\* awaited by nobody, so nothing but its own lookup holds the run back.
AwaitingFetch(r) == pipe[r].pc = "fetching"

\* Message r arrives on the open socket; messages are numbered in the order
\* of arrival.
Message(r) ==
  /\ proc = "running"
  /\ ws # 0 /\ sock[ws].rs = "OPEN"
  /\ pipe[r].pc = "none"
  /\ \A q \in Refs : q < r => pipe[q].pc # "none"
  /\ \E kind \in {"notification", "other"} : pipe' = OnMessage(pipe, r, kind)
  /\ lastOp' = "message"
  /\ UNCHANGED <<cfgVars, clientVars, proc, closed, emitted, prevAttempts, failRun, lastDelay,
                 hub, peer, resp, unit, ui>>

\* The provider settles the lookup of message r and the run resumes.
FetchReturn(r) ==
  /\ proc = "running"
  /\ AwaitingFetch(r)
  /\ \E inp \in TxInputs : pipe' = processTransaction(pipe, r, inp)
  /\ lastOp' = "fetchReturn"
  /\ UNCHANGED <<cfgVars, clientVars, proc, closed, emitted, prevAttempts, failRun, lastDelay,
                 hub, peer, resp, unit, ui>>

----------------------------------------------------------------------------
\* Any other caller of the client's public methods.

ApiConnect ==
  /\ proc = "api" /\ ~MicrotaskPending
  /\ CanConnect(Cur)
  /\ Commit(Connect(Cur, "api"), "connect")
  /\ closed' = FALSE
  /\ UNCHANGED <<proc, hub, peer>>

ApiClose ==
  /\ proc = "api" /\ ~MicrotaskPending
  /\ Commit(Close(Cur), "close")
  /\ closed' = TRUE
  /\ UNCHANGED <<proc, hub, peer>>

ApiReconnect ==
  /\ proc = "api" /\ ~MicrotaskPending
  /\ Commit(Reconnect(Cur), "reconnect")
  /\ closed' = FALSE
  /\ UNCHANGED <<proc, hub, peer>>

\* subscribe('pendingTransactions') called from outside the client's own
\* jobs, in whatever state the client is.
CallSubscribe ==
  /\ Alive /\ ~MicrotaskPending
  /\ IF SubscribeThrows(Cur) THEN TRUE ELSE Cur.sock[Cur.ws].subs < MaxSubs
  /\ Commit(Subscribe(Cur),
            IF SubscribeThrows(Cur) THEN "subscribeThrew" ELSE "subscribe")
  /\ UNCHANGED <<proc, closed, hub, peer>>

----------------------------------------------------------------------------
\* calculateReconnectDelay() taken alone, as the tests call it.

\* (client as any).reconnectAttempts = n
SetAttempts(n) ==
  /\ proc = "unit"
  /\ Commit([Cur EXCEPT !.reconnectAttempts = n], "setAttempts")
  /\ UNCHANGED <<proc, closed, hub, peer>>

\* client.calculateReconnectDelay()
CalcDelay ==
  /\ proc = "unit"
  /\ lastDelay' = calculateReconnectDelay(Cur)
  /\ lastOp' = "calcDelay"
  /\ UNCHANGED <<cfgVars, clientVars, proc, closed, emitted, prevAttempts, failRun, pipe,
                 hub, peer, resp, unit, ui>>

----------------------------------------------------------------------------
\* The stages of the pipeline taken alone, as their tests call them.

NoUnit == [fn |-> "none"]

\* Text is a sequence of characters; an absent value (null) is a record
\* that says so.
Chars == {"a", "A", "b", "B", "7"}

Texts(n) == UNION {[1..k -> Chars] : k \in 0..n}

Null == [null |-> TRUE, text |-> <<>>]

Str(t) == [null |-> FALSE, text |-> t]

\* String.prototype.toLowerCase
toLowerCase(t) ==
  [i \in DOMAIN t |-> IF t[i] = "A" THEN "a" ELSE IF t[i] = "B" THEN "b" ELSE t[i]]

\* new TransactionProcessor(provider, targetAddress)
TransactionProcessor(targetAddress) == [targetAddress |-> toLowerCase(targetAddress)]

\* Faulty variant, for comparison: the destination is compared as it is written.
isTargetCaseSensitive(this, to) ==
  IF to.null \/ to.text = <<>> THEN FALSE ELSE to.text = this.targetAddress

\* TransactionProcessor.isTargetTransaction(tx), of tx its field to: a
\* null or empty destination is falsy.
isTarget(this, to) ==
  IF to.null \/ to.text = <<>> THEN FALSE
  ELSE toLowerCase(to.text) = this.targetAddress

\* processor.isTargetTransaction(transaction)
CallIsTarget ==
  /\ proc = "unit"
  /\ unit.fn = "isTargetTransaction" /\ ~unit.done
  /\ unit' = [unit EXCEPT !.done = TRUE,
                          !.out = isTarget(TransactionProcessor(unit.target), unit.to)]
  /\ lastOp' = "isTargetTransaction"
  /\ UNCHANGED <<cfgVars, clientVars, proc, closed, emitted, prevAttempts, failRun,
                 lastDelay, pipe, hub, peer, resp, ui>>

----------------------------------------------------------------------------
\* The ABI decoder.

\* The functions of the router ABI the decoder is built with.
AbiFunctions ==
  {"exactInputSingle", "exactInput", "exactOutputSingle", "exactOutput",
   "multicall", "unwrapWETH9", "refundETH"}

\* Call data given to decode().
\*   hex           the text is 0x followed by hexadecimal digits
\*   bytes         its length in bytes; the selector is the first 4
\*   selector      the ABI function the selector names, or unknown
\*   args          whether the bytes after the selector decode against the
\*                 types of that function: ok, mismatch
\*   unknownThrows what the library does for a selector it does not know:
\*                 it throws, or it returns null
\* together with the transaction value, a decimal text or not.
CallData ==
  [hex : BOOLEAN, bytes : 0..MaxDataBytes, selector : AbiFunctions \cup {"unknown"},
   args : {"ok", "mismatch"}, unknownThrows : BOOLEAN]

Malformed(data) ==
  \/ ~data.hex
  \/ data.bytes < 4
  \/ data.selector = "unknown"
  \/ data.args = "mismatch"

\* this.interface.parseTransaction({ data: inputData })
parseTransaction(data) ==
  IF ~data.hex THEN "throws"
  ELSE IF data.bytes < 4 \/ data.selector = "unknown"
       THEN IF data.unknownThrows THEN "throws" ELSE "null"
  ELSE IF data.args = "mismatch" THEN "throws"
  ELSE "parsed"

\* Faulty variant, for comparison: decode() without its try/catch.
decodeDataNoCatch(data, valueIsNumber) ==
  LET parsed == parseTransaction(data) IN
  IF parsed = "throws" THEN "threw"
  ELSE IF parsed = "null" THEN "null"
  ELSE IF ~valueIsNumber THEN "threw"
  ELSE "decoded"

\* ABIDecoder.decode(inputData, txHash, from, to, value): null when the
\* library returns null, and, from the catch block, when the library or
\* BigInt(value) throws.
decodeData(data, valueIsNumber) ==
  LET parsed == parseTransaction(data) IN
  IF parsed = "throws" THEN "null"
  ELSE IF parsed = "null" THEN "null"
  ELSE IF ~valueIsNumber THEN "null"
  ELSE "decoded"

\* decoder.decode(inputData, txHash, from, to, value)
CallDecode ==
  /\ proc = "unit"
  /\ unit.fn = "decode" /\ ~unit.done
  /\ unit' = [unit EXCEPT !.done = TRUE,
                          !.out = decodeData(unit.data, unit.valueIsNumber)]
  /\ lastOp' = "decode"
  /\ UNCHANGED <<cfgVars, clientVars, proc, closed, emitted, prevAttempts, failRun,
                 lastDelay, pipe, hub, peer, resp, ui>>

\* ABIDecoder.isSwapFunction(functionName): swapFunctions.includes(functionName)
swapFunctions == {"exactInputSingle", "exactInput", "exactOutputSingle", "exactOutput"}

\* Faulty variant, for comparison: every function of the ABI counts as a swap.
isSwapFunctionAnyKnown(functionName) == functionName \in AbiFunctions

isSwapFunctionName(functionName) == functionName \in swapFunctions

\* processTransaction() from stage 3 on, for a transaction that was fetched
\* and is addressed to the router: decode, swap check, classify, broadcast.
\* The result names the stages entered, the number of broadcasts and the
\* functionName of the event that was broadcast (parsed.name).
afterFilter(data, valueIsNumber) ==
  LET decoded == decodeData(data, valueIsNumber) IN
  IF decoded = "null"
  THEN [stages |-> <<"decode">>, sent |-> 0, functionName |-> "none"]
  ELSE IF ~isSwapFunctionName(data.selector)
  THEN [stages |-> <<"decode", "swapCheck">>, sent |-> 0, functionName |-> "none"]
  ELSE [stages |-> <<"decode", "swapCheck", "classify", "broadcast">>, sent |-> 1,
        functionName |-> data.selector]

\* A run of processTransaction() resumes with a router transaction.
CallAfterFilter ==
  /\ proc = "unit"
  /\ unit.fn = "processTransaction" /\ ~unit.done
  /\ unit' = [unit EXCEPT !.done = TRUE,
                          !.out = afterFilter(unit.data, unit.valueIsNumber)]
  /\ lastOp' = "processTransaction"
  /\ UNCHANGED <<cfgVars, clientVars, proc, closed, emitted, prevAttempts, failRun,
                 lastDelay, pipe, hub, peer, resp, ui>>

----------------------------------------------------------------------------
\* The risk classifier.  A bigint is written as its decimal digits, most
\* significant first and without leading zeros (zero is <<0>>); a decimal
\* text and a floating-point number are a whole part and a fraction part.

WeiDecimals == 18
DoubleDigits == 17
FixedLimitDigits == 22

Zeros(n) == [i \in 1..n |-> 0]

Repeat(d, n) == [i \in 1..n |-> d]

Front(d) == SubSeq(d, 1, Len(d) - 1)

RECURSIVE Strip(_)
Strip(d) == IF Len(d) > 1 /\ d[1] = 0 THEN Strip(Tail(d)) ELSE d

RECURSIVE Trim(_)
Trim(d) == IF Len(d) > 1 /\ d[Len(d)] = 0 THEN Trim(Front(d)) ELSE d

RECURSIVE Inc(_)
Inc(d) ==
  IF d = <<>> THEN <<1>>
  ELSE IF d[Len(d)] = 9 THEN Inc(Front(d)) \o <<0>>
  ELSE Front(d) \o <<d[Len(d)] + 1>>

\* a > b on bigints
Greater(a, b) ==
  \/ Len(a) > Len(b)
  \/ /\ Len(a) = Len(b)
     /\ \E i \in 1..Len(a) : a[i] > b[i] /\ \A j \in 1..(i - 1) : a[j] = b[j]

\* ethers.parseEther(text)
parseEther(t) == Strip(t.whole \o t.frac \o Zeros(WeiDecimals - Len(t.frac)))

\* ethers.formatEther(wei): at least one digit after the point, no
\* trailing zero beyond it.
formatEther(w) ==
  LET padded == IF Len(w) <= WeiDecimals THEN Zeros(WeiDecimals + 1 - Len(w)) \o w ELSE w
      n == Len(padded)
  IN [whole |-> SubSeq(padded, 1, n - WeiDecimals),
      frac |-> Trim(SubSeq(padded, n - WeiDecimals + 1, n))]

\* The digits of t rounded half up after its first k digits; the digits
\* dropped from the whole part become zeros.
RoundTo(t, k) ==
  LET all == t.whole \o t.frac
      w == Len(t.whole)
  IN IF Len(all) <= k THEN t
     ELSE LET kept == SubSeq(all, 1, k)
              up == IF all[k + 1] >= 5 THEN Inc(kept) ELSE kept
              grown == Len(up) - k
              full == IF k < w THEN up \o Zeros(w - k) ELSE up
          IN [whole |-> SubSeq(full, 1, w + grown),
              frac |-> SubSeq(full, w + grown + 1, Len(full))]

\* parseFloat(text): the nearest double, which carries about 17
\* significant decimal digits.
parseFloat(t) ==
  LET all == t.whole \o t.frac
      lead == IF \A i \in DOMAIN all : all[i] = 0 THEN Len(all)
              ELSE (CHOOSE i \in DOMAIN all :
                      all[i] # 0 /\ \A j \in 1..(i - 1) : all[j] = 0) - 1
  IN RoundTo(t, lead + DoubleDigits)

\* Number.prototype.toFixed(digits): fixed notation with that many digits
\* after the point, but for a number of 1e21 or more the exponential
\* notation of String(number).
toFixed(x, digits) ==
  IF Len(x.whole) >= FixedLimitDigits
  THEN LET m == Trim(x.whole)
       IN [notation |-> "exponential", whole |-> <<m[1]>>, frac |-> Tail(m),
           exp |-> Len(x.whole) - 1]
  ELSE LET r == RoundTo([whole |-> x.whole,
                         frac |-> x.frac \o Zeros(digits + 1 - Len(x.frac))],
                        Len(x.whole) + digits)
       IN [notation |-> "fixed", whole |-> r.whole, frac |-> r.frac, exp |-> 0]

\* new RiskClassifier(riskThresholdEth)
RiskClassifier(riskThresholdEth) == [riskThresholdEth |-> parseEther(riskThresholdEth)]

\* Faulty variant, for comparison: a value equal to the threshold is HIGH.
calculateRiskLevelInclusive(this, ethValue) ==
  IF ethValue = this.riskThresholdEth \/ Greater(ethValue, this.riskThresholdEth)
  THEN "HIGH" ELSE "LOW"

calculateRiskLevel(this, ethValue) ==
  IF Greater(ethValue, this.riskThresholdEth) THEN "HIGH" ELSE "LOW"

formatEthValue(weiValue) == toFixed(parseFloat(formatEther(weiValue)), 4)

\* RiskClassifier.classify(tx), of the result the two fields computed from
\* tx.value.
classifyValue(this, value) ==
  [riskLevel |-> calculateRiskLevel(this, value), ethValue |-> formatEthValue(value)]

\* Thresholds in ETH given to the constructor: "0.1" (the default), "0.05",
\* "1" and "0".
ThresholdTexts ==
  {[whole |-> <<0>>, frac |-> <<1>>], [whole |-> <<0>>, frac |-> <<0, 5>>],
   [whole |-> <<1>>, frac |-> <<>>], [whole |-> <<0>>, frac |-> <<>>]}

\* Transaction values in wei: a whole ETH part of up to MaxWholeDigits
\* digits and 18 digits below it.
WholeParts ==
  {<<0>>} \cup {<<d>> \o Repeat(f, k) : d \in {1, 9}, f \in {0, 9},
                                        k \in 0..(MaxWholeDigits - 1)}

FracParts ==
  {pre \o Repeat(f, WeiDecimals - 6) \o <<l>> :
     pre \in {<<0, 0, 0, 0, 0>>, <<0, 0, 0, 0, 4>>, <<0, 0, 0, 0, 5>>, <<0, 9, 9, 9, 9>>,
              <<1, 0, 0, 0, 0>>, <<1, 2, 3, 4, 5>>, <<9, 9, 9, 9, 5>>, <<9, 9, 9, 9, 9>>},
     f \in {0, 9}, l \in {0, 1, 9}}

WeiValues == {Strip(w \o f) : w \in WholeParts, f \in FracParts}

\* classifier.classify(decodedTx)
CallClassify ==
  /\ proc = "unit"
  /\ unit.fn = "classify" /\ ~unit.done
  /\ unit' = [unit EXCEPT !.done = TRUE,
                          !.out = classifyValue(RiskClassifier(unit.threshold), unit.value)]
  /\ lastOp' = "classify"
  /\ UNCHANGED <<cfgVars, clientVars, proc, closed, emitted, prevAttempts, failRun,
                 lastDelay, pipe, hub, peer, resp, ui>>

----------------------------------------------------------------------------
\* The dashboard: the audio hook (useAudioFeedback).
\*   isEnabled  the isEnabled state as last rendered
\*   ctx        audioContextRef.current is set
\*   queue      soundQueueRef.current: the queued playSound closures, each
\*              named by the number of its request and the kind of sound
\*   isPlaying  isPlayingRef.current
\*   sounding   the oscillators that were started and have not ended
\*   started    the requests whose sound was started, in order
\*   requests   the number of sounds pushed on the queue so far
NewAudio ==
  [isEnabled |-> FALSE, ctx |-> FALSE, queue |-> <<>>, isPlaying |-> FALSE,
   sounding |-> {}, started |-> <<>>, requests |-> 0]

NoUi == [mounted |-> FALSE]

AlertSeconds == 3

TxIds == 1..MaxTxs

\* Home and its children after the first render.
\*   transactions        the transactions state of useTransactionStream
\*   radarState          Home's radarState
\*   selected            Home's selectedTransaction: 0 (null) or a transaction
\*   internalAlertState  RadarVisualization's state
\*   alertTimeout        the time the radar's timeout fires at; 0 = not armed
\*   now                 the time in seconds
\*   lastHigh            when the last HIGH transaction arrived; -1 = none yet
\*   runs                per transaction, how often Home's effect acted on it
\*   opens               per transaction, how often that effect opened the
\*                       detail card for it when the card did not show it
\*   clicks              the user interactions so far
NewUi ==
  [mounted |-> TRUE, audio |-> NewAudio, transactions |-> <<>>,
   radarState |-> "normal", selected |-> 0, internalAlertState |-> "normal",
   alertTimeout |-> 0, now |-> 0, lastHigh |-> -1,
   runs |-> [i \in TxIds |-> 0], opens |-> [i \in TxIds |-> 0], clicks |-> 0]

\* initAudio, the listener of the first click, touchstart or keydown.
initAudio(a) ==
  IF ~a.ctx THEN [a EXCEPT !.ctx = TRUE, !.isEnabled = TRUE] ELSE a

\* Faulty variant, for comparison: the newest queued sound is taken first.
processQueueNewestFirst(a) ==
  IF a.isPlaying \/ Len(a.queue) = 0 THEN a
  ELSE LET nextSound == a.queue[Len(a.queue)] IN
       [a EXCEPT !.isPlaying = TRUE,
                 !.queue = SubSeq(@, 1, Len(@) - 1),
                 !.sounding = @ \cup {nextSound},
                 !.started = Append(@, nextSound.id)]

\* processQueue: nothing while isPlayingRef is set or the queue is empty;
\* otherwise the flag is set and the first queued closure is shifted and
\* called, which starts its oscillator.
processQueue(a) ==
  IF a.isPlaying \/ Len(a.queue) = 0 THEN a
  ELSE LET nextSound == Head(a.queue) IN
       [a EXCEPT !.isPlaying = TRUE,
                 !.queue = Tail(@),
                 !.sounding = @ \cup {nextSound},
                 !.started = Append(@, nextSound.id)]

\* playTick and playSiren: the same body but for the sound.
play(a, kind) ==
  IF ~a.isEnabled \/ ~a.ctx THEN a
  ELSE processQueue([a EXCEPT !.queue = Append(@, [id |-> a.requests + 1, kind |-> kind]),
                              !.requests = @ + 1])

playTick(a) == play(a, "tick")

playSiren(a) == play(a, "siren")

\* oscillator.onended of a started sound.
onended(a, snd) ==
  processQueue([a EXCEPT !.sounding = @ \ {snd}, !.isPlaying = FALSE])

\* setEnabled(enabled): the state is set; disabling also empties the queue
\* and clears isPlayingRef. A sounding oscillator is not stopped.
setEnabled(a, enabled) ==
  IF enabled THEN [a EXCEPT !.isEnabled = TRUE]
  ELSE [a EXCEPT !.isEnabled = FALSE, !.queue = <<>>, !.isPlaying = FALSE]

\* The body of Home's effect: the latest transaction sets the radar to
\* alert, requests the siren and opens the detail card when it is HIGH, and
\* requests the tick when it is LOW.
homeEffect(u) ==
  IF Len(u.transactions) = 0 THEN u
  ELSE LET latestTransaction == u.transactions[Len(u.transactions)] IN
       IF latestTransaction.riskLevel = "HIGH"
       THEN [u EXCEPT !.radarState = "alert",
                      !.audio = playSiren(@),
                      !.selected = latestTransaction.id,
                      !.runs[latestTransaction.id] = @ + 1,
                      !.opens[latestTransaction.id] =
                         IF u.selected = latestTransaction.id THEN @ ELSE @ + 1]
       ELSE [u EXCEPT !.audio = playTick(@),
                      !.runs[latestTransaction.id] = @ + 1]

\* The body of RadarVisualization's effect.
radarEffect(u) ==
  IF u.radarState = "alert"
  THEN [u EXCEPT !.internalAlertState = "alert", !.alertTimeout = u.now + AlertSeconds]
  ELSE u

\* The renders that follow a handler: an effect runs again only when one of
\* its dependencies changed. Home's effect depends on transactions and on
\* playTick and playSiren, which are new functions whenever isEnabled
\* changed; the radar's effect depends on alertState (setRadarState, its
\* other dependency, never changes).
rerender(before, after) ==
  LET u1 == IF \/ after.transactions # before.transactions
               \/ after.audio.isEnabled # before.audio.isEnabled
            THEN homeEffect(after) ELSE after
  IN IF u1.radarState # before.radarState THEN radarEffect(u1) ELSE u1

\* A user interaction is also the document's click, touchstart or keydown:
\* the first one runs initAudio after the component's own handler.
interaction(u) == [u EXCEPT !.audio = initAudio(@), !.clicks = @ + 1]

\* Array.prototype.slice(start): a negative start counts from the end,
\* and -0 is 0.
slice(list, start) ==
  LET len == Len(list)
      k == IF start < 0 THEN (IF len + start > 0 THEN len + start ELSE 0)
           ELSE (IF start < len THEN start ELSE len)
  IN SubSeq(list, k + 1, len)

\* TransactionStream: displayTransactions = transactions.slice(-maxItems)
displayTransactions(transactions, maxItems) == slice(transactions, 0 - maxItems)

\* render(<TransactionStream transactions={...} maxItems={...} />)
RenderStream ==
  /\ proc = "unit"
  /\ unit.fn = "TransactionStream" /\ ~unit.done
  /\ unit' = [unit EXCEPT !.done = TRUE,
                          !.out = displayTransactions(unit.transactions, unit.maxItems)]
  /\ lastOp' = "render"
  /\ UNCHANGED <<cfgVars, clientVars, proc, closed, emitted, prevAttempts, failRun,
                 lastDelay, pipe, hub, peer, resp, ui>>

uiRest ==
  <<cfgVars, clientVars, proc, closed, emitted, prevAttempts, failRun, lastDelay, pipe,
    hub, peer, resp, unit>>

\* The first user interaction with the document.
InitAudio ==
  /\ proc = "ui"
  /\ ~ui.audio.ctx
  /\ ui' = [ui EXCEPT !.audio = initAudio(@)]
  /\ lastOp' = "initAudio"
  /\ UNCHANGED uiRest

\* The owner of the hook calls playTick() or playSiren().
Play(kind) ==
  /\ proc = "ui"
  /\ ui.audio.requests < MaxRequests
  /\ ui' = [ui EXCEPT !.audio = IF kind = "tick" THEN playTick(@) ELSE playSiren(@)]
  /\ lastOp' = kind
  /\ UNCHANGED uiRest

\* The owner of the hook calls setEnabled(enabled).
SetEnabled(enabled) ==
  /\ proc = "ui"
  /\ ui' = [ui EXCEPT !.audio = setEnabled(@, enabled)]
  /\ lastOp' = "setEnabled"
  /\ UNCHANGED uiRest

\* A sounding oscillator reaches its stop time.
SoundEnded(snd) ==
  /\ proc = "ui"
  /\ snd \in ui.audio.sounding
  /\ ui' = [ui EXCEPT !.audio = onended(@, snd)]
  /\ lastOp' = "ended"
  /\ UNCHANGED uiRest

\* socket.on('transaction'): the transaction is appended to the list.
Receive(riskLevel) ==
  /\ proc = "ui"
  /\ Len(ui.transactions) < MaxTxs
  /\ LET tx == [id |-> Len(ui.transactions) + 1, riskLevel |-> riskLevel]
         u1 == [ui EXCEPT !.transactions = Append(@, tx),
                          !.lastHigh = IF riskLevel = "HIGH" THEN ui.now ELSE @]
     IN ui' = rerender(ui, u1)
  /\ lastOp' = "transaction"
  /\ UNCHANGED uiRest

\* The AUDIO button is clicked: setAudioEnabled(!audioEnabled).
ToggleAudio ==
  /\ proc = "ui"
  /\ ui.clicks < MaxClicks
  /\ ui' = rerender(ui, interaction([ui EXCEPT !.audio = setEnabled(@, ~ui.audio.isEnabled)]))
  /\ lastOp' = "toggleAudio"
  /\ UNCHANGED uiRest

\* The detail card is closed (its button, Escape, or a click outside it):
\* handleDetailCardClose.
CloseCard ==
  /\ proc = "ui"
  /\ ui.clicks < MaxClicks
  /\ ui.selected # 0
  /\ ui' = rerender(ui, interaction([ui EXCEPT !.selected = 0]))
  /\ lastOp' = "closeCard"
  /\ UNCHANGED uiRest

\* A transaction of the stream is clicked: handleTransactionClick.
ClickTransaction(i) ==
  /\ proc = "ui"
  /\ ui.clicks < MaxClicks
  /\ i \in 1..Len(ui.transactions)
  /\ ui' = rerender(ui, interaction([ui EXCEPT !.selected = i]))
  /\ lastOp' = "clickTransaction"
  /\ UNCHANGED uiRest

\* The radar's timeout fires: the radar returns to normal and tells Home.
AlertTimeout ==
  /\ proc = "ui"
  /\ ui.alertTimeout # 0 /\ ui.alertTimeout <= ui.now
  /\ ui' = rerender(ui, [ui EXCEPT !.alertTimeout = 0,
                                   !.internalAlertState = "normal",
                                   !.radarState = "normal"])
  /\ lastOp' = "alertTimeout"
  /\ UNCHANGED uiRest

\* A second passes; a timeout that is due fires first.
Tick ==
  /\ proc = "ui"
  /\ ui.now < MaxTime
  /\ ui.alertTimeout = 0 \/ ui.now < ui.alertTimeout
  /\ ui' = [ui EXCEPT !.now = @ + 1]
  /\ lastOp' = "tick1s"
  /\ UNCHANGED uiRest

----------------------------------------------------------------------------
\* The fields of a new client, and no message received yet.
InitFields ==
  /\ closed = FALSE
  /\ connectionState = "disconnected"
  /\ reconnectAttempts = 0
  /\ reconnectTimer = 0
  /\ ws = 0
  /\ timers = [t \in TimerIds |-> 0]
  /\ sock = [s \in Sockets |-> FreeSock]
  /\ thrown = "none"
  /\ lastOp = "new"
  /\ emitted = <<>>
  /\ prevAttempts = 0
  /\ failRun = 0
  /\ lastDelay = 0
  /\ pipe = [r \in Refs |-> NoRef]
  /\ peer = [id \in ConnIds |-> NoPeer]
  /\ resp = NoRequest

InitClient ==
  /\ urlValid \in BOOLEAN
  /\ optMaxDelay \in MaxDelayOptions
  /\ maxReconnectDelay = Constructor(optMaxDelay)
  /\ InitFields
  /\ hub = NewHub
  /\ ui = NoUi
  /\ unit = NoUnit

\* The client inside the server process.
Init == InitClient /\ proc = "init"

Internal ==
  \/ \E s \in Sockets : SockOpen(s)
  \/ \E s \in Sockets : SockError(s)
  \/ \E s \in Sockets : SockClose(s)
  \/ \E s \in Sockets : ConnTimeout(s)
  \/ \E t \in TimerIds : TimerFire(t)
  \/ TimerAwait

Next ==
  \/ Internal
  \/ Start
  \/ StartAwait
  \/ Shutdown
  \/ Exit

Spec == Init /\ [][Next]_vars

\* The client under arbitrary calls of its public methods.
ApiInit == InitClient /\ proc = "api" /\ optMaxDelay = 0

ApiNext ==
  \/ Internal
  \/ ApiConnect
  \/ ApiClose
  \/ ApiReconnect

ApiSpec == ApiInit /\ [][ApiNext]_vars

\* The client under callers that use connect() and close() only.
CallerNext ==
  \/ Internal
  \/ ApiConnect
  \/ ApiClose

CallerSpec == ApiInit /\ [][CallerNext]_vars

\* The server with subscribe() called at arbitrary moments.
SubscriberNext ==
  \/ Next
  \/ CallSubscribe

SubscriberSpec == Init /\ [][SubscriberNext]_vars

\* A client constructed with any maximum delay, its retry counter set by hand.
DelayInit ==
  /\ urlValid = TRUE
  /\ optMaxDelay \in ConfiguredDelays
  /\ maxReconnectDelay = Constructor(optMaxDelay)
  /\ InitFields
  /\ hub = NewHub
  /\ ui = NoUi
  /\ unit = NoUnit
  /\ proc = "unit"

DelayNext ==
  \/ \E n \in 0..MaxRetryCount : SetAttempts(n)
  \/ CalcDelay

DelaySpec == DelayInit /\ [][DelayNext]_vars

\* The server once start() has returned: connected on its first socket, the
\* subscription sent by the 'connected' listener and again by start().
PipeInit ==
  /\ urlValid = TRUE
  /\ optMaxDelay = 0
  /\ maxReconnectDelay = Constructor(optMaxDelay)
  /\ closed = FALSE
  /\ connectionState = "connected"
  /\ reconnectAttempts = 0
  /\ reconnectTimer = 0
  /\ ws = 1
  /\ timers = [t \in TimerIds |-> 0]
  /\ sock = [s \in Sockets |->
               IF s = 1
               THEN [FreeSock EXCEPT !.rs = "OPEN", !.promise = "resolved",
                                     !.waiter = "start", !.subs = 2]
               ELSE FreeSock]
  /\ thrown = "none"
  /\ lastOp = "startAwait"
  /\ emitted = <<>>
  /\ prevAttempts = 0
  /\ failRun = 0
  /\ lastDelay = 0
  /\ pipe = [r \in Refs |-> NoRef]
  /\ hub = HubStart(NewHub)
  /\ ui = NoUi
  /\ peer = [id \in ConnIds |-> NoPeer]
  /\ resp = NoRequest
  /\ unit = NoUnit
  /\ proc = "running"

PipeNext ==
  \/ \E r \in Refs : Message(r)
  \/ \E r \in Refs : FetchReturn(r)

PipeSpec == PipeInit /\ [][PipeNext]_vars

\* The pipeline with a provider that answers every lookup but that of the
\* first message, which may stay pending for ever.
PipeFairness == \A r \in Refs \ {1} : WF_vars(FetchReturn(r))

PipeFairSpec == PipeSpec /\ PipeFairness

\* The connected server with its pipeline running while the upstream
\* connection drops and is re-established: the client's jobs interleave with
\* the arrival of messages and the return of lookups.  A lookup here fails,
\* finds nothing or finds a swap sent to the router; the stages in between
\* are the subject of PipeSpec.
WindowInputs ==
  {inp \in TxInputs : inp.lookup = "tx" => inp.target /\ inp.decodes /\ inp.swap}

WindowNext ==
  \/ Internal /\ reconnectAttempts' <= MaxWindowAttempts
  \/ \E r \in Refs : Message(r)
  \/ \E r \in Refs : FetchReturn(r) /\ pipe'[r].inp \in WindowInputs

WindowSpec == PipeInit /\ [][WindowNext]_vars

\* The Broadcast Hub taken alone, constructed and started as its tests do,
\* with subscribers that come and go.
HubInit ==
  /\ urlValid = TRUE
  /\ optMaxDelay = 0
  /\ maxReconnectDelay = Constructor(optMaxDelay)
  /\ InitFields
  /\ hub = HubStart(NewHub)
  /\ ui = NoUi
  /\ unit = NoUnit
  /\ proc = "hub"

HubNext ==
  \/ SubscriberConnect
  \/ \E id \in ConnIds : SubscriberClose(id)
  \/ \E id \in ConnIds : HubDisconnect(id)
  \/ \E id \in ConnIds : Deliver(id)
  \/ \E e \in Events : Broadcast(e)
  \/ CloseHub

HubSpec == HubInit /\ [][HubNext]_vars

\* The server with subscribers that come and go and HTTP requests made at
\* any moment.
ProbeNext ==
  \/ Next /\ reconnectAttempts' <= MaxWindowAttempts
  \/ SubscriberConnect
  \/ \E id \in ConnIds : SubscriberClose(id)
  \/ \E id \in ConnIds : HubDisconnect(id)
  \/ \E method \in {"GET", "POST"}, url \in {"/health", "/unknown"} : Probe(method, url)

ProbeSpec == Init /\ [][ProbeNext]_vars

\* isTargetTransaction() on a processor built for any non-empty target
\* address (the configuration rejects an empty one) and a transaction with
\* any destination or none.
FilterInit ==
  /\ urlValid = TRUE
  /\ optMaxDelay = 0
  /\ maxReconnectDelay = Constructor(optMaxDelay)
  /\ InitFields
  /\ hub = NewHub
  /\ ui = NoUi
  /\ proc = "unit"
  /\ \E target \in Texts(MaxAddrLen) \ {<<>>},
        to \in {Null} \cup {Str(t) : t \in Texts(MaxAddrLen)} :
       unit = [fn |-> "isTargetTransaction", target |-> target, to |-> to,
               done |-> FALSE, out |-> FALSE]

FilterNext == CallIsTarget

FilterSpec == FilterInit /\ [][FilterNext]_vars

\* classify() on a classifier built for any of the thresholds and a
\* transaction of any of the values.
ClassifierInit ==
  /\ urlValid = TRUE
  /\ optMaxDelay = 0
  /\ maxReconnectDelay = Constructor(optMaxDelay)
  /\ InitFields
  /\ hub = NewHub
  /\ ui = NoUi
  /\ proc = "unit"
  /\ \E threshold \in ThresholdTexts, value \in WeiValues :
       unit = [fn |-> "classify", threshold |-> threshold, value |-> value,
               done |-> FALSE,
               out |-> [riskLevel |-> "none",
                        ethValue |-> [notation |-> "none", whole |-> <<>>,
                                      frac |-> <<>>, exp |-> 0]]]

ClassifierNext == CallClassify

ClassifierSpec == ClassifierInit /\ [][ClassifierNext]_vars

\* decode() on any call data and value.
DecodeInit ==
  /\ urlValid = TRUE
  /\ optMaxDelay = 0
  /\ maxReconnectDelay = Constructor(optMaxDelay)
  /\ InitFields
  /\ hub = NewHub
  /\ ui = NoUi
  /\ proc = "unit"
  /\ \E data \in CallData, valueIsNumber \in BOOLEAN :
       unit = [fn |-> "decode", data |-> data, valueIsNumber |-> valueIsNumber,
               done |-> FALSE, out |-> "pending"]

DecodeNext == CallDecode

DecodeSpec == DecodeInit /\ [][DecodeNext]_vars

\* The audio hook taken alone, as its tests render it: sounds are
\* requested, audio is switched on and off, and sounds end, in any order.
UiInit ==
  /\ urlValid = TRUE
  /\ optMaxDelay = 0
  /\ maxReconnectDelay = Constructor(optMaxDelay)
  /\ InitFields
  /\ hub = NewHub
  /\ unit = NoUnit
  /\ proc = "ui"

AudioInit == UiInit /\ ui = NewUi

Sounds == {[id |-> i, kind |-> k] : i \in 1..MaxRequests, k \in {"tick", "siren"}}

AudioNext ==
  \/ InitAudio
  \/ \E kind \in {"tick", "siren"} : Play(kind)
  \/ \E enabled \in BOOLEAN : SetEnabled(enabled)
  \/ \E snd \in Sounds : SoundEnded(snd)

AudioSpec == AudioInit /\ [][AudioNext]_vars

\* Every started sound ends.
AudioFairSpec == AudioSpec /\ \A snd \in Sounds : WF_vars(SoundEnded(snd))

\* processTransaction() on a router transaction with any call data.
SwapInit ==
  /\ urlValid = TRUE
  /\ optMaxDelay = 0
  /\ maxReconnectDelay = Constructor(optMaxDelay)
  /\ InitFields
  /\ hub = NewHub
  /\ ui = NoUi
  /\ proc = "unit"
  /\ \E data \in CallData, valueIsNumber \in BOOLEAN :
       unit = [fn |-> "processTransaction", data |-> data,
               valueIsNumber |-> valueIsNumber, done |-> FALSE,
               out |-> [stages |-> <<>>, sent |-> 0, functionName |-> "none"]]

SwapNext == CallAfterFilter

SwapSpec == SwapInit /\ [][SwapNext]_vars

\* The transaction stream rendered with any list and any maxItems.
RECURSIVE Lists(_)
Lists(n) ==
  IF n = 0 THEN {<<>>}
  ELSE Lists(n - 1) \cup {Append(l, x) : l \in {m \in Lists(n - 1) : Len(m) = n - 1},
                                         x \in {"HIGH", "LOW"}}

StreamInit ==
  /\ urlValid = TRUE
  /\ optMaxDelay = 0
  /\ maxReconnectDelay = Constructor(optMaxDelay)
  /\ InitFields
  /\ hub = NewHub
  /\ ui = NoUi
  /\ proc = "unit"
  /\ \E risks \in Lists(MaxStreamLen), maxItems \in 0..MaxItems :
       unit = [fn |-> "TransactionStream",
               transactions |-> [i \in 1..Len(risks) |-> [id |-> i, riskLevel |-> risks[i]]],
               maxItems |-> maxItems, done |-> FALSE, out |-> <<>>]

StreamNext == RenderStream

StreamSpec == StreamInit /\ [][StreamNext]_vars

\* The dashboard: transactions arrive, the user clicks, sounds end and
\* time passes.
DashInit == UiInit /\ ui = NewUi

DashNext ==
  \/ \E riskLevel \in {"HIGH", "LOW"} : Receive(riskLevel)
  \/ ToggleAudio
  \/ CloseCard
  \/ \E i \in TxIds : ClickTransaction(i)
  \/ \E snd \in ui.audio.sounding : SoundEnded(snd)
  \/ AlertTimeout
  \/ Tick

DashSpec == DashInit /\ [][DashNext]_vars

\* The server with the scheduling the runtime guarantees: queued
\* continuations and next-tick events run, armed timers fire, and every
\* handshake ends (it is accepted, fails, or hits the 10 s timeout).
Fairness ==
  /\ WF_vars(TimerAwait)
  /\ WF_vars(StartAwait)
  /\ \A t \in TimerIds : WF_vars(TimerFire(t))
  /\ \A s \in Sockets : WF_vars(SockOpen(s) \/ SockError(s) \/ ConnTimeout(s))
  /\ \A s \in Sockets : WF_vars(sock[s].rs = "CLOSING" /\ SockClose(s))

FairSpec == Spec /\ Fairness

TypeOK ==
  /\ connectionState \in ConnectionStates
  /\ reconnectAttempts \in 0..AttemptCap
  /\ reconnectTimer \in 0..MaxTimers
  /\ ws \in 0..MaxSockets

----------------------------------------------------------------------------
\* Claims.

ArmedTimers == {t \in TimerIds : timers[t] # 0}

\* The delay the backoff schedule names for the k-th timer of a run of
\* failures, k = 1, 2, ...
ScheduleDelay(k) ==
  IF k = 1 THEN 1000
  ELSE IF k = 2 THEN 2000
  ELSE IF k = 3 THEN 4000
  ELSE IF k = 4 THEN 8000
  ELSE IF k = 5 THEN 16000
  ELSE IF optMaxDelay = 0 THEN 30000 ELSE optMaxDelay

\* C1: in a run of consecutive failed reconnection attempts (no successful
\* open in between) the k-th timer armed by reconnect() has the k-th delay
\* of 1000, 2000, 4000, 8000, 16000, max, max, ...
C1_BackoffSequence ==
  reconnectTimer # 0 => timers[reconnectTimer] = ScheduleDelay(failRun)

C1_Witness ==
  /\ optMaxDelay = 0
  /\ failRun = 7
  /\ reconnectTimer # 0
  /\ timers[reconnectTimer] = 30000

\* C4 as claimed: the retry counter increments only in a job that handles a
\* failed attempt, never in the job that starts an attempt.
C4_IncrementOnlyOnFailure ==
  reconnectAttempts > prevAttempts => lastOp \in {"error", "timeout", "timerAwait"}

\* C4 as amended: the retry counter increments by one exactly when the
\* reconnection timer fires and the attempt is started; the jobs that handle
\* the failure of an attempt leave it unchanged, and the only other change is
\* the reset to 0 by the open handler.
C4_IncrementOnAttemptStart ==
  /\ lastOp = "timerFire" => reconnectAttempts = prevAttempts + 1
  /\ lastOp \in {"error", "timeout", "timerAwait", "sockClose"}
       => reconnectAttempts = prevAttempts
  /\ reconnectAttempts # prevAttempts => lastOp \in {"timerFire", "open"}

C4_Witness ==
  /\ lastOp = "timerFire"
  /\ connectionState = "connecting"
  /\ reconnectAttempts = prevAttempts + 1
  /\ \E s \in Sockets : sock[s].rs = "CONNECTING" /\ sock[s].promise = "pending"

\* C5: right after the open handler the retry counter is 0, whatever it was.
C5_OpenResetsCounter == lastOp = "open" => reconnectAttempts = 0

C5_Witness == lastOp = "open" /\ prevAttempts = MaxAttempts /\ reconnectAttempts = 0

\* C2 as claimed: from a call of close() until the next call of connect()
\* (or of reconnect(), which is the caller's own request) no reconnection
\* timer is outstanding and the state is disconnected; with no timer armed
\* and the state never leaving disconnected, no connection attempt starts.
C2_ClosedStaysClosed ==
  closed => /\ connectionState = "disconnected"
            /\ reconnectTimer = 0
            /\ ArmedTimers = {}

\* The part of C2 that is the postcondition of close() itself.
C2_CloseCancelsTimer ==
  lastOp = "close" => /\ connectionState = "disconnected"
                      /\ reconnectTimer = 0
                      /\ ArmedTimers = {}

\* C3: at most one reconnection timer is outstanding, and reconnect() called
\* while one is scheduled changes nothing: no state, no timer, no counter,
\* no socket, and it emits nothing.
C3_SingleTimer ==
  /\ [](Cardinality(ArmedTimers) <= 1)
  /\ [][(lastOp' = "reconnect" /\ reconnectTimer # 0)
          => (Cur' = Cur /\ emitted' = <<>>)]_vars

C3_Witness ==
  /\ lastOp = "reconnect"
  /\ reconnectTimer # 0
  /\ emitted = <<>>
  /\ Cardinality(ArmedTimers) = 1

\* C9: connect() called while connecting or connected changes nothing: no
\* state, no socket, no timer, and it emits nothing.
C9_ConnectIdempotent ==
  [][(lastOp' = "connect" /\ connectionState \in {"connecting", "connected"})
       => (Cur' = Cur /\ emitted' = <<>>)]_vars

C9_Witness ==
  /\ lastOp = "connect"
  /\ connectionState = "connecting"
  /\ emitted = <<>>
  /\ \E s \in Sockets : sock[s].rs = "CONNECTING"

\* C10 as claimed, in the form a finite run refutes: once the socket made
\* by a connect() call has closed (its connectionTimeout is cleared and it
\* emits nothing more, so nothing can settle the promise any longer), the
\* promise of that call has been resolved or rejected.
C10_PromiseSettled ==
  \A s \in Sockets :
    (sock[s].rs = "CLOSED" /\ ~sock[s].ctimer) => sock[s].promise # "pending"

\* C6: every socket that has opened, on the initial connection or on a
\* reconnection, has had the subscription request sent on it.
C6_SubscribedOnOpen ==
  \A s \in Sockets : sock[s].rs = "OPEN" => sock[s].subs >= 1

C6_Witness ==
  /\ lastOp = "open"
  /\ prevAttempts >= 1
  /\ ws # 0
  /\ sock[ws].rs = "OPEN"
  /\ sock[ws].subs = 1

\* C7: a socket close while connected (close() not called) emits the change
\* to disconnected and then schedules a reconnection: state reconnecting,
\* one timer armed; a socket close while connecting leaves the state
\* disconnected and arms no timer.
C7_CloseHandler ==
  [][lastOp' = "sockClose" =>
       /\ (connectionState = "connected" /\ ~closed) =>
            /\ connectionState' = "reconnecting"
            /\ reconnectTimer' # 0
            /\ Cardinality(ArmedTimers') = 1
            /\ Len(emitted') = 4
            /\ emitted'[1] = StateChange("disconnected")
            /\ emitted'[3] = StateChange("reconnecting")
       /\ connectionState = "connecting" =>
            /\ connectionState' = "disconnected"
            /\ timers' = timers
            /\ reconnectTimer' = reconnectTimer]_vars

C7_Witness ==
  /\ lastOp = "sockClose"
  /\ ~closed
  /\ connectionState = "reconnecting"
  /\ Cardinality(ArmedTimers) = 1
  /\ emitted = <<StateChange("disconnected"), Ev("disconnected", "-", 0, 0),
                 StateChange("reconnecting"), Ev("reconnecting", "-", 1, 1000)>>

\* C8: while the server runs (no shutdown, so close() is not called), a
\* client that lost its connection and is reconnecting is eventually
\* connected again, however many attempts fail before the upstream accepts.
C8_EventuallyReconnected ==
  (proc = "running" /\ connectionState = "reconnecting")
    ~> (connectionState = "connected" \/ proc # "running")

C8_Witness ==
  /\ proc = "running"
  /\ lastOp = "open"
  /\ prevAttempts = MaxAttempts
  /\ connectionState = "connected"

\* C11: an 'error' or the 10 s timeout of a socket in handshake, while the
\* state is connecting, rejects the promise of the connect() call that made
\* the socket, and the close of that socket leaves the state disconnected.
C11_FailureRejects ==
  [][\A s \in Sockets :
       /\ (/\ lastOp' \in {"error", "timeout"}
           /\ connectionState = "connecting"
           /\ sock[s].rs = "CONNECTING"
           /\ sock'[s].rs = "CLOSING")
            => sock'[s].promise = "rejected"
       /\ (/\ lastOp' = "sockClose"
           /\ sock[s].rs = "CLOSING"
           /\ sock[s].promise = "rejected"
           /\ sock'[s].rs = "CLOSED")
            => connectionState' = "disconnected"]_vars

C11_Witness ==
  /\ lastOp = "sockClose"
  /\ connectionState = "disconnected"
  /\ \E s \in Sockets : sock[s].rs = "CLOSED" /\ sock[s].promise = "rejected"

\* C12: subscribe() called while the state is not connected throws and
\* changes nothing: no frame is sent on any socket, nothing is emitted.
C12_SubscribeThrows ==
  [][(lastOp' \in {"subscribe", "subscribeThrew"} /\ connectionState # "connected")
       => (lastOp' = "subscribeThrew" /\ Cur' = Cur /\ emitted' = <<>>)]_vars

C12_Witness ==
  /\ lastOp = "subscribeThrew"
  /\ connectionState = "reconnecting"
  /\ ws # 0
  /\ sock[ws].subs >= 1

StateChanges(es) == {i \in 1..Len(es) : es[i].ev = "stateChange"}

LastStateChange(es) ==
  es[CHOOSE i \in StateChanges(es) : \A j \in StateChanges(es) : j <= i]

\* C13: a job that changes the connection state emits stateChange, and the
\* last stateChange a job emits carries the state the job leaves; hence the
\* last stateChange emitted so far always equals the current state.
C13_StateChangeNotified ==
  [][/\ connectionState' # connectionState => StateChanges(emitted') # {}
     /\ StateChanges(emitted') # {}
          => LastStateChange(emitted').st = connectionState']_vars

C13_Witness ==
  /\ lastOp = "sockClose"
  /\ Cardinality(StateChanges(emitted)) = 2
  /\ LastStateChange(emitted).st = "reconnecting"
  /\ connectionState = "reconnecting"

\* C14 as claimed: whatever the retry count and the configured maximum, the
\* computed delay is at least 1000 and at most the maximum.
C14_DelayWithinBounds ==
  lastDelay # 0 => (1000 <= lastDelay /\ lastDelay <= maxReconnectDelay)

\* C15 as claimed: with a well-formed configuration the process ends only
\* by the shutdown that a signal requests.
C15_TransientNeverFatal ==
  (proc = "exited" /\ urlValid) => lastOp = "exit"

\* C16: no inbound message is broadcast more than once.
C16_AtMostOneBroadcast == \A r \in Refs : pipe[r].sent <= 1

C16_Witness ==
  \E r \in Refs : pipe[r].pc = "done" /\ pipe[r].sent = 1 /\ pipe[r].calls = 1

StageOrder == <<"fetch", "filter", "decode", "classify", "broadcast">>

IsPrefix(s, t) == Len(s) <= Len(t) /\ \A i \in 1..Len(s) : s[i] = t[i]

\* C17: the stages of a run are entered in the order fetch, filter, decode,
\* classify, broadcast; a run that broadcast had a transaction fetched,
\* accepted by the filter and decoded; a run ends at the stage that failed
\* or rejected.
C17_StagesInOrder ==
  \A r \in Refs :
    /\ IsPrefix(pipe[r].stages, StageOrder)
    /\ pipe[r].sent > 0 =>
         /\ pipe[r].inp.lookup = "tx"
         /\ pipe[r].inp.target
         /\ pipe[r].inp.decodes
    /\ pipe[r].pc = "done" =>
         /\ pipe[r].inp.lookup # "tx" => pipe[r].stages = <<"fetch">>
         /\ (pipe[r].inp.lookup = "tx" /\ ~pipe[r].inp.target)
              => pipe[r].stages = <<"fetch", "filter">>
         /\ (pipe[r].inp.lookup = "tx" /\ pipe[r].inp.target /\ ~pipe[r].inp.decodes)
              => pipe[r].stages = <<"fetch", "filter", "decode">>

C17_Witness ==
  \E q, r \in Refs :
    /\ pipe[q].pc = "done" /\ pipe[q].stages = StageOrder
    /\ pipe[r].pc = "done" /\ ~pipe[r].inp.decodes
    /\ pipe[r].stages = <<"fetch", "filter", "decode">>

Eligible(inp) == inp.lookup = "tx" /\ inp.target /\ inp.decodes /\ inp.swap

\* C18: no stage throws and the catch block of processTransaction() has
\* nothing to catch; what becomes of a reference depends on that reference
\* alone: it is broadcast exactly if it is a decodable swap addressed to the
\* router, whatever happened to the references before it.
C18_FailureIsolated ==
  \A r \in Refs :
    /\ pipe[r].fetched # "throw"
    /\ ~pipe[r].caught
    /\ pipe[r].pc = "done" => (pipe[r].sent = 1 <=> Eligible(pipe[r].inp))

C18_Witness ==
  /\ pipe[1].pc = "done" /\ pipe[1].inp.lookup = "error"
  /\ pipe[2].pc = "done" /\ pipe[2].inp.lookup = "tx" /\ ~pipe[2].inp.decodes
  /\ pipe[3].pc = "done" /\ pipe[3].sent = 1

\* C19: when the provider returns no transaction or fails,
\* processTransactionHash() returns null, not an exception, after a single
\* call of the provider.
C19_FetchReturnsNull ==
  \A r \in Refs :
    (pipe[r].pc = "done" /\ pipe[r].inp.lookup \in {"none", "error"})
      => (pipe[r].fetched = "null" /\ pipe[r].calls = 1)

C19_Witness ==
  \E q, r \in Refs :
    /\ pipe[q].pc = "done" /\ pipe[q].inp.lookup = "error" /\ pipe[q].fetched = "null"
    /\ pipe[r].pc = "done" /\ pipe[r].inp.lookup = "none" /\ pipe[r].fetched = "null"

\* C20: a reference whose lookup the provider answers is processed to the
\* end even if the lookup of the first reference never completes.
C20_NotSerialized ==
  \A r \in Refs \ {1} : (pipe[r].pc = "fetching") ~> (pipe[r].pc = "done")

C20_Witness ==
  /\ pipe[1].pc = "fetching"
  /\ pipe[2].pc = "done" /\ pipe[2].sent = 1
  /\ pipe[3].pc = "fetching"

\* A step in which broadcast() is called.
BroadcastStep == \E r \in Refs : pipe'[r].sent > pipe[r].sent

Expected(id) ==
  LET F[i \in 0..Len(hub.log)] ==
        IF i = 0 THEN <<>>
        ELSE IF id \in hub.log[i].to THEN Append(F[i - 1], hub.log[i].event)
        ELSE F[i - 1]
  IN F[Len(hub.log)]

\* What the subscriber of connection id has received and is still to receive.
Incoming(id) ==
  LET w == peer[id].wire
      G[i \in 0..Len(w)] == IF i = 0 THEN <<>> ELSE Append(G[i - 1], Decode(w[i]))
  IN peer[id].inbox \o G[Len(w)]

\* C22: every attached subscriber receives each event broadcast since it
\* attached exactly once, in order and with every field equal to the event
\* passed to broadcast(); what it has received so far is never more than that.
C22_OneCopyEach ==
  \A id \in ConnIds :
    /\ peer[id].st = "attached" => Incoming(id) = Expected(id)
    /\ peer[id].st \in {"attached", "kicked", "left"} =>
         IsPrefix(peer[id].inbox, Expected(id))

\* Every connection is attached and one broadcast has reached them all.
C22_Witness ==
  /\ hub.calls = 1
  /\ \A id \in ConnIds :
        /\ peer[id].st = "attached"
        /\ peer[id].wire = <<>>
        /\ peer[id].inbox = <<hub.log[1].event>>

\* C23: a broadcast() call never throws; it writes its packet to every
\* subscriber still attached, whatever other subscribers have left, and with
\* no subscriber attached it changes nothing; a subscriber's leaving touches
\* no other subscriber's connection.
C23_DisconnectIsolated ==
  [][/\ lastOp' = "broadcast" /\ hub'.calls = hub.calls + 1 =>
          /\ ~hub'.threw
          /\ \A id \in ConnIds :
                IF peer[id].st = "attached"
                THEN peer'[id] =
                       [peer[id] EXCEPT !.wire =
                          Append(@, Encode("transaction", hub'.log[hub'.calls].event))]
                ELSE peer'[id] = peer[id]
     /\ lastOp' \in {"subscriberClose", "hubDisconnect"} =>
          \A id \in ConnIds :
            peer'[id] # peer[id] => \A j \in ConnIds \ {id} : peer'[j] = peer[j]]_vars

\* A broadcast was made while the first subscriber had left and the hub had
\* not yet noticed: the packet is on its way to the second subscriber.
C23_Witness ==
  /\ lastOp = "broadcast" /\ hub.calls = 1 /\ ~hub.threw
  /\ peer[1].st = "left" /\ 1 \in hub.log[1].to
  /\ peer[2].st = "attached" /\ Len(peer[2].wire) = 1

\* C24: once the hub has been closed, a broadcast() call reaches no
\* subscriber, not even one that has not yet noticed the closing, and does
\* not throw.
C24_BroadcastAfterClose ==
  [][(lastOp' = "broadcast" /\ hub'.calls = hub.calls + 1 /\ hub.closed) =>
        peer' = peer /\ ~hub'.threw]_vars

\* A broadcast() was called after close(), while a subscriber that was
\* attached at the closing had not yet noticed it.
C24_Witness ==
  /\ lastOp = "broadcast" /\ hub.closed /\ ~hub.threw
  /\ hub.log[hub.calls].to = {}
  /\ \E id \in ConnIds : peer[id].st = "kicked" /\ peer[id].wire = <<>>

\* The connections the hub holds: the subscriber is attached, or has left
\* without the hub having noticed yet.
Held == {id \in ConnIds : peer[id].st \in {"attached", "left"}}

\* C25: the entries of connectedClients are exactly the connections the hub
\* holds, one entry each, so getConnectedClients() and the connections
\* field of the health probe both equal their number.
C25_CountMatchesAttached ==
  /\ hub.connectedClients = Held
  /\ hub.sockets = Held
  /\ getConnectedClients(hub) = Cardinality(Held)
  /\ healthHandler(hub, "GET", "/health").connections = Cardinality(Held)

\* After two connections and one disconnection one subscriber is counted.
C25_Witness ==
  /\ lastOp = "hubDisconnect"
  /\ peer[1].st = "gone" /\ peer[2].st = "attached"
  /\ getConnectedClients(hub) = 1

HealthProbed == lastOp = "probe" /\ resp.method = "GET" /\ resp.url = "/health"

\* C26 as stated: a GET /health request is answered with 200 and "ok" in
\* every state of the running process.
C26_HealthAlwaysOk ==
  HealthProbed => resp.ans.code = 200 /\ resp.ans.status = "ok"

\* C26: from start() until shutdown() closes the hub the HTTP server is
\* listening, and in that span a GET /health request is answered with 200,
\* "ok" and the number of subscribers, whatever the upstream connection
\* state and also with no subscriber.
C26_HealthOkWhileServing ==
  /\ proc \in {"starting", "running"} => hub.listening
  /\ (HealthProbed /\ proc \in {"starting", "running"}) =>
        resp.ans = [code |-> 200, status |-> "ok",
                    connections |-> Cardinality(hub.connectedClients)]

\* The probe was answered while the client was waiting to reconnect, with
\* no subscriber attached.
C26_Witness ==
  /\ HealthProbed /\ resp.ans.code = 200
  /\ connectionState = "reconnecting"
  /\ hub.connectedClients = {}

\* C27: isTargetTransaction(t) is true exactly when t.to is present and
\* equals the configured target address once both are put in lower case; a
\* transaction without destination is rejected.
C27_FilterMatchesTarget ==
  (unit.fn = "isTargetTransaction" /\ unit.done) =>
    /\ unit.out = (~unit.to.null /\ toLowerCase(unit.to.text) = toLowerCase(unit.target))
    /\ unit.to.null => unit.out = FALSE

\* A destination written in upper case was accepted for a target written in
\* lower case.
C27_Witness ==
  /\ unit.fn = "isTargetTransaction" /\ unit.done /\ unit.out
  /\ unit.target = <<"a", "b">> /\ unit.to = Str(<<"A", "B">>)

RECURSIVE LexGreater(_, _)
LexGreater(a, b) ==
  IF a = <<>> THEN FALSE
  ELSE IF Head(a) # Head(b) THEN Head(a) > Head(b)
  ELSE LexGreater(Tail(a), Tail(b))

\* v > t, both written with the same number of digits.
Exceeds(v, t) ==
  LET n == IF Len(v) > Len(t) THEN Len(v) ELSE Len(t)
  IN LexGreater(Zeros(n - Len(v)) \o v, Zeros(n - Len(t)) \o t)

Classified == unit.fn = "classify" /\ unit.done

TenthEth == [whole |-> <<0>>, frac |-> <<1>>]

\* C28: the risk level is HIGH exactly when the value in wei exceeds the
\* threshold in wei, and LOW when it equals it; with the threshold 0.1 ETH,
\* 100000000000000000 is LOW and 100000000000000001 is HIGH.
C28_HighIffAboveThreshold ==
  Classified =>
    /\ unit.out.riskLevel =
         IF Exceeds(unit.value, parseEther(unit.threshold)) THEN "HIGH" ELSE "LOW"
    /\ unit.value = parseEther(unit.threshold) => unit.out.riskLevel = "LOW"
    /\ (unit.threshold = TenthEth /\ unit.value = <<1>> \o Zeros(17)) =>
         unit.out.riskLevel = "LOW"
    /\ (unit.threshold = TenthEth /\ unit.value = <<1>> \o Zeros(16) \o <<1>>) =>
         unit.out.riskLevel = "HIGH"

\* A value of exactly 0.1 ETH was classified against the threshold 0.1 ETH.
C28_Witness ==
  /\ Classified
  /\ unit.threshold = TenthEth /\ unit.value = <<1>> \o Zeros(17)
  /\ unit.out.riskLevel = "LOW"

\* C30: for every non-negative transaction value the formatted value has
\* exactly 4 digits after the decimal point.
C30_FourDecimals ==
  Classified =>
    unit.out.ethValue.notation = "fixed" /\ Len(unit.out.ethValue.frac) = 4

\* C29: for malformed call data (not hexadecimal, too short for a
\* selector, an unknown selector, arguments that do not decode) decode()
\* returns null; and it throws for no input at all.
C29_MalformedGivesNull ==
  (unit.fn = "decode" /\ unit.done) =>
    /\ unit.out # "threw"
    /\ Malformed(unit.data) => unit.out = "null"

\* Call data of a known function whose arguments do not decode gave null.
C29_Witness ==
  /\ unit.fn = "decode" /\ unit.done /\ unit.out = "null"
  /\ unit.data.hex /\ unit.data.bytes >= 4
  /\ unit.data.selector = "exactInputSingle" /\ unit.data.args = "mismatch"

\* C31: at most one sound is playing at any time, for every interleaving
\* of playTick, playSiren, setEnabled and sound-ended events.
C31_OneSoundAtATime == ui.mounted => Cardinality(ui.audio.sounding) <= 1

\* C32: while audio stays enabled every requested sound is eventually
\* started, and sounds are started in the order they were requested,
\* provided every started sound ends.
C32_StartedInOrder ==
  /\ [](ui.mounted =>
         \A i, j \in 1..Len(ui.audio.started) :
            i < j => ui.audio.started[i] < ui.audio.started[j])
  /\ \A r \in 1..MaxRequests :
       [](ui.mounted /\ (\E i \in 1..Len(ui.audio.queue) : ui.audio.queue[i].id = r)
          => <>(~ui.audio.isEnabled
                \/ \E i \in 1..Len(ui.audio.started) : ui.audio.started[i] = r))

\* Three sounds were requested while one was playing and audio stayed
\* enabled, and all three were started.
C32_Witness ==
  /\ ui.mounted /\ ui.audio.isEnabled
  /\ ui.audio.started = <<1, 2, 3>>
  /\ Cardinality(ui.audio.sounding) = 1

\* C33: while the last HIGH transaction arrived less than 3 seconds ago the
\* radar is in alert state, so a chain of HIGH transactions less than 3
\* seconds apart keeps it in alert from the first until 3 seconds after the
\* last, which is what restarting the 3-second timeout at each new HIGH
\* transaction gives.
C33_AlertUntilThreeSecondsAfterLast ==
  (ui.mounted /\ ui.lastHigh >= 0 /\ ui.now < ui.lastHigh + AlertSeconds) =>
    ui.internalAlertState = "alert"

\* C40: each transaction triggers its alert effects at most once; switching
\* audio on or off and closing the detail card do not trigger them again.
C40_EffectsOncePerTransaction ==
  ui.mounted => \A i \in TxIds : ui.runs[i] <= 1 /\ ui.opens[i] <= 1

\* C34: for every list and every maxItems >= 0 the stream displays at most
\* maxItems items, and they are the most recent min(length, maxItems)
\* transactions in arrival order.
C34_LastMaxItems ==
  (unit.fn = "TransactionStream" /\ unit.done) =>
    LET len == Len(unit.transactions)
        n == IF len < unit.maxItems THEN len ELSE unit.maxItems
    IN /\ Len(unit.out) <= unit.maxItems
       /\ unit.out = [i \in 1..n |-> unit.transactions[len - n + i]]

\* C35: whenever the connection state is connected the retry counter is 0,
\* for any interleaving of connect(), reconnect(), close(), timer firings
\* and socket events.
C35_ConnectedMeansNoAttempts ==
  connectionState = "connected" => reconnectAttempts = 0

\* C36: a reconnection timer is outstanding if and only if the connection
\* state is reconnecting.
C36_TimerIffReconnecting ==
  (ArmedTimers # {}) <=> (connectionState = "reconnecting")

\* Socket s was closed by ws.close() and this.ws now refers to a socket
\* that a later connect() created.
Superseded(s) ==
  /\ sock[s].rs = "CLOSING" /\ (sock[s].abort \/ ~sock[s].errd)
  /\ ws # 0 /\ ws # s

\* The job that just ran was the error or the close handler of socket s.
EventOf(s) ==
  \/ lastOp' = "error" /\ ~sock[s].errd /\ sock'[s].errd
  \/ lastOp' = "sockClose" /\ sock[s].rs # "CLOSED" /\ sock'[s].rs = "CLOSED"

\* C37: a close or error event of a superseded socket changes neither the
\* connection state nor the timers: the state follows the socket created
\* last.
C37_SupersededSocketIgnored ==
  [][\A s \in Sockets :
       (Superseded(s) /\ EventOf(s)) =>
         (connectionState' = connectionState /\ timers' = timers)]_vars

\* C38: each successful connection, the initial one included, has exactly
\* one subscription request sent on its socket once the job that follows
\* the open has run, and never two.
C38_OneSubscriptionPerSocket ==
  \A s \in Sockets :
    /\ sock[s].subs <= 1
    /\ (sock[s].rs = "OPEN" /\ proc = "running") => sock[s].subs = 1

Processed == unit.fn = "processTransaction" /\ unit.done

\* C39: every event the pipeline broadcasts has a functionName among
\* exactInputSingle, exactInput, exactOutputSingle and exactOutput; a
\* transaction that decodes to multicall, unwrapWETH9 or refundETH is
\* neither classified nor broadcast.
C39_OnlySwapsBroadcast ==
  Processed =>
    /\ unit.out.sent > 0 =>
         unit.out.functionName \in
           {"exactInputSingle", "exactInput", "exactOutputSingle", "exactOutput"}
    /\ (decodeData(unit.data, unit.valueIsNumber) = "decoded"
        /\ unit.data.selector \in {"multicall", "unwrapWETH9", "refundETH"}) =>
         /\ unit.out.sent = 0
         /\ \A i \in 1..Len(unit.out.stages) :
              unit.out.stages[i] \notin {"classify", "broadcast"}

\* A multicall transaction was decoded and dropped at the swap check.
C39_Witness ==
  /\ Processed
  /\ decodeData(unit.data, unit.valueIsNumber) = "decoded"
  /\ unit.data.selector = "multicall"
  /\ unit.out.stages = <<"decode", "swapCheck">>
  /\ unit.out.sent = 0

====
